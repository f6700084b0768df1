------------------------------ MODULE MCModels ------------------------------
(***************************************************************************)
(* The model router and the semantic cache for TLC.  The client runs on    *)
(* top of the cache; the catalogue, the stream, the embeddings and the     *)
(* manager keep no state in common with them, so a behaviour is one of one *)
(* part, chosen in its initial state.                                      *)
(***************************************************************************)
EXTENDS LiteLLMClient, ModelCatalog, ModelStream, CacheManager, TLC

CONSTANTS p1, p2, m1, m2

VARIABLE part

completionVars == <<cacheVars, clientVars>>
vars == <<part, completionVars, catalogVars, stream, managerVars, embeddingVars>>

Init ==
    /\ part \in {"completion", "catalog", "stream", "manager", "embedding"}
    /\ CacheInit /\ ClientInit /\ CatalogInit /\ StreamInit /\ ManagerInit /\ EmbeddingInit

Completion(A) == part = "completion" /\ A
    /\ UNCHANGED <<part, catalogVars, stream, managerVars, embeddingVars>>
Catalog(A) == part = "catalog" /\ A
    /\ UNCHANGED <<part, completionVars, stream, managerVars, embeddingVars>>
Streaming(A) == part = "stream" /\ A
    /\ UNCHANGED <<part, completionVars, catalogVars, managerVars, embeddingVars>>
Managing(A) == part = "manager" /\ A
    /\ UNCHANGED <<part, completionVars, catalogVars, stream, embeddingVars>>
Embedding(A) == part = "embedding" /\ A
    /\ UNCHANGED <<part, completionVars, catalogVars, stream, managerVars>>

Next ==
    \/ Completion(ClientNext) \/ Catalog(CatalogNext) \/ Streaming(StreamNext)
    \/ Managing(ManagerNext) \/ Embedding(EmbeddingNext)

Spec == Init /\ [][Next]_vars

-----------------------------------------------------------------------------
MCSimilar == {<<p, q>> : p, q \in Prompts}
Symmetry == Permutations(Calls) \cup Permutations({p1, p2}) \cup Permutations({m1, m2})

Profile(tools, structured, context, english, score) ==
    [tools |-> tools, structured |-> structured, context |-> context,
     english |-> english, score |-> score]
MCCatalogue ==
    <<Profile(TRUE, TRUE, 16384, TRUE, 3), Profile(FALSE, TRUE, 16384, TRUE, 5),
      Profile(TRUE, TRUE, 8192, TRUE, 4), Profile(TRUE, FALSE, 16384, TRUE, 9),
      Profile(TRUE, TRUE, 16384, TRUE, 3), Profile(TRUE, TRUE, 32768, TRUE, 1),
      Profile(TRUE, TRUE, 16384, FALSE, 9)>>
MCNeeds == [tools : BOOLEAN, context : {8192, 16384, 65536}]

(* Conversations of up to three messages, each with a text of its own.     *)
MCConversations ==
    {[i \in DOMAIN roles |-> [role |-> roles[i], texts |-> <<i>>]] :
        roles \in UNION {[1..n -> {"system", "user", "assistant", "tool"}] : n \in 1..3}}

(* The names of all tables, with a date, and without their first part.     *)
MCAsked == LET names == UNION {ToSet(TableRows(p)) : p \in Providers}
           IN UNION {{n, Append(n, "2024"), Tail(n)} : n \in names} \ {<<>>}

-----------------------------------------------------------------------------
(* The fields of the classes.                                              *)
TypeOK == CacheTypeOK /\ ClientTypeOK /\ StreamTypeOK /\ ManagerTypeOK /\ EmbeddingTypeOK

(* What the router and the services around the cache hand out is right:    *)
(* models and requests that fit, whole streams, embeddings of the texts    *)
(* they were asked for, and figures that add up.                           *)
HandedOutRight == CatalogCorrect /\ StreamEndsWhole /\ EmbeddingsInOrder /\ ManagerKeepsTrack
=============================================================================
