-------------------------- MODULE MCMemoryRuntime --------------------------
(***************************************************************************)
(* A small instance of MemoryRuntime: a profile in the store, claims for   *)
(* its slot (of the same and of another type), a sensitive fact and a      *)
(* credential.                                                             *)
(***************************************************************************)
EXTENDS MemoryRuntime, PromptChecks

CONSTANTS i1

Claim(k, t, ty, s) ==
    [key |-> k, profileKey |-> k = "profile", text |-> t, type |-> ty, sens |-> s,
     importance |-> 50, confidence |-> 90, explicit |-> TRUE, transient |-> FALSE]

MCProposals ==
    {{Claim("profile", "b", "user_profile", "normal"), Claim("fact", "s", "fact", "health")},
     {Claim("profile", "b", "fact", "normal")},
     {Claim("fact", "x", "fact", "credential")}}

MCEdits == {[text |-> "t", sens |-> "health"]}

MCStores ==
    {[db |-> Upsert(EmptyStore, Claim("profile", "a", "user_profile", "normal"), i1),
      ltm |-> TRUE, hist |-> TRUE]}
=============================================================================
