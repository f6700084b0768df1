--------------------------- MODULE McpOnboarding ---------------------------
(***************************************************************************)
(* The wizard of apps/web/app/mcp/onboard/page.tsx: its steps, the edits   *)
(* each of them offers, the test and the save. A person may go back and    *)
(* edit while a test or a save is under way. The test is asked of an       *)
(* address the API has no route for; `served` says whether something else  *)
(* (a proxy before the API) answers there.                                 *)
(***************************************************************************)
EXTENDS Naturals

CONSTANTS MaxInputs,    \* bound: edits made
          MaxTests      \* bound: tests asked

WIZARD_STEPS == <<"basic", "transport", "config", "auth", "test", "confirm">>
LastStep == 5
Texts == {"", "short", "command", "url"}

VARIABLES
    served,
    currentStep,
    config,         \* name, id, transport, endpoint, authType, and edits counted
    testResult,     \* "null", "success" or "failure"
    testing, saving,
    asked,          \* the answer of the test under way, with the edits it has seen
    posted,         \* the config of the save under way, or of the one last stored
    registry,       \* whether the API has stored it
    tests           \* tests asked (bound)

wizardVars == <<served, currentStep, config, testResult, testing, saving, asked, posted, registry,
                tests>>

WizardInit ==
    /\ served \in BOOLEAN
    /\ currentStep = 0
    /\ config = [name |-> "", id |-> "", transport |-> "stdio", endpoint |-> "",
                 authType |-> "none", edits |-> 0]
    /\ testResult = "null" /\ testing = FALSE /\ saving = FALSE
    /\ asked = 0 /\ posted = config /\ registry = FALSE /\ tests = 0

UpdateConfig(c) ==
    /\ config.edits < MaxInputs /\ [c EXCEPT !.edits = config.edits] # config
    /\ config' = [c EXCEPT !.edits = config.edits + 1]
    /\ UNCHANGED <<served, currentStep, testResult, testing, saving, asked, posted, registry, tests>>

(* The inputs of the steps "basic", "transport", "config" and "auth".      *)
EditBasic == currentStep = 0 /\ \/ \E t \in {"", "short", "command"} : UpdateConfig([config EXCEPT !.name = t])
                                \/ \E t \in {"", "command"} : UpdateConfig([config EXCEPT !.id = t])
EditTransport == currentStep = 1 /\ \E t \in {"stdio", "http"} : UpdateConfig([config EXCEPT !.transport = t])
EditEndpoint == currentStep = 2 /\ \E t \in Texts \ {"short"} : UpdateConfig([config EXCEPT !.endpoint = t])
EditAuth == currentStep = 3 /\ \E t \in {"none", "api_key"} : UpdateConfig([config EXCEPT !.authType = t])

(* Mutant: the endpoint is looked at without the transport it is for.      *)
AnyEndpointCanProceed(step) ==
    CASE step = 0 -> config.name \notin {"", "short"}
      [] step = 2 -> config.endpoint # ""
      [] step = 4 -> testResult = "success"
      [] OTHER -> TRUE

(* canProceed, of the step on the screen; a name of one letter is short.   *)
CanProceed(step) ==
    CASE step = 0 -> config.name \notin {"", "short"}
      [] step = 2 -> config.endpoint # "" /\ (config.transport = "http" => config.endpoint = "url")
      [] step = 4 -> testResult = "success"
      [] OTHER -> TRUE

Go(step) ==
    /\ currentStep' = step
    /\ UNCHANGED <<served, config, testResult, testing, saving, asked, posted, registry, tests>>

Back == currentStep > 0 /\ Go(currentStep - 1)
Forward == currentStep < LastStep /\ CanProceed(currentStep) /\ Go(currentStep + 1)

-----------------------------------------------------------------------------
(* Mutant: the last result stays until the new one comes.                  *)
KeepingHandleTest ==
    /\ currentStep = 4 /\ ~testing /\ tests < MaxTests
    /\ testing' = TRUE /\ asked' = config.edits /\ tests' = tests + 1
    /\ UNCHANGED <<served, currentStep, config, testResult, saving, posted, registry>>

HandleTest ==
    /\ currentStep = 4 /\ ~testing /\ tests < MaxTests
    /\ testing' = TRUE /\ testResult' = "null" /\ asked' = config.edits /\ tests' = tests + 1
    /\ UNCHANGED <<served, currentStep, config, saving, posted, registry>>

(* The 404 of the API is an answer without success; fetch may also reject, *)
(* which leaves no result.                                                 *)
TestAnswer ==
    /\ testing /\ testing' = FALSE
    /\ testResult' \in {"null", "failure"} \cup (IF served THEN {"success"} ELSE {})
    /\ UNCHANGED <<served, currentStep, config, saving, asked, posted, registry, tests>>

HandleSave ==
    /\ currentStep = 5 /\ ~saving /\ testResult = "success"
    /\ saving' = TRUE /\ posted' = config
    /\ UNCHANGED <<served, currentStep, config, testResult, testing, asked, registry, tests>>

(* The API stores what has an id (mcpServerSchema); the answer, good or    *)
(* not, enables the button again.                                          *)
SaveAnswer ==
    /\ saving /\ saving' = FALSE
    /\ registry' = (registry \/ posted.id # "")
    /\ UNCHANGED <<served, currentStep, config, testResult, testing, asked, posted, tests>>

WizardNext == \/ EditBasic \/ EditTransport \/ EditEndpoint \/ EditAuth \/ Back \/ Forward
              \/ HandleTest \/ TestAnswer \/ HandleSave \/ SaveAnswer

-----------------------------------------------------------------------------
WizardTypeOK ==
    /\ currentStep \in 0..LastStep /\ testResult \in {"null", "success", "failure"}
    /\ config.name \in Texts /\ config.endpoint \in Texts /\ config.transport \in {"stdio", "http"}

(* What is posted fits its transport and was tested, unless the config was *)
(* edited after its test had begun; nobody gets as far whom only the API   *)
(* answers.                                                                *)
OnlyWhole ==
    /\ saving => /\ posted.name \notin {"", "short"}
                 /\ posted.transport = "http" => posted.endpoint = "url"
                 /\ posted.transport = "stdio" => posted.endpoint # ""
    /\ currentStep = LastStep => ~testing /\ testResult = "success"
    /\ currentStep = LastStep \/ registry => served
=============================================================================
