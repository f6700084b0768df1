----------------------------- MODULE MCRunGraph -----------------------------
(* Instances of RunGraph for TLC.                                          *)
EXTENDS RunGraph, TLC

CONSTANTS r1, r2, s1, s2, fs, git

(* As allocateToolsForRole would give a reader and a committer.            *)
MCRoleTools == (r1 :> {fs}) @@ (r2 :> {git})

(* An LLM plan may group role ids, step ids, or a mixture.                 *)
MCGroups == {{r1, r2}, {r1, s2}, {s1, s2}}
MCOneGroup == {{r1, r2}}
=============================================================================
