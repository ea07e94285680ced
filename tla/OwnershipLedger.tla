-------------------------- MODULE OwnershipLedger --------------------------
(***************************************************************************)
(* What the ownership manifests of the benchmark promise, free of Docker,  *)
(* processes and crashes: a ledger on disk names every container that may  *)
(* exist, before it may exist and until it can no longer exist.            *)
(* ContainerRuntime and GatewayLifecycle implement it.                     *)
(***************************************************************************)
CONSTANT Names      \* container names

VARIABLES ledger,   \* names recorded on disk
          live      \* names of containers that exist or may still be created

lvars == <<ledger, live>>

LedgerInit == ledger = {} /\ live = {}

\* Names are written ahead of the launches that use them.
Record(new) == /\ ledger' = ledger \cup new
               /\ UNCHANGED live

\* Only a recorded name is launched.
Launch(n) == /\ n \in ledger
             /\ live' = live \cup {n}
             /\ UNCHANGED ledger

\* Containers go away, or a launch comes to nothing, at any time.
Vanish(gone) == /\ live' = live \ gone
                /\ UNCHANGED ledger

\* Only names that can no longer exist are forgotten.
Forget(gone) == /\ gone \cap live = {}
                /\ ledger' = ledger \ gone
                /\ UNCHANGED live

LedgerNext == \/ \E n \in Names : Launch(n)
              \/ \E names \in SUBSET Names :
                     Record(names) \/ Vanish(names) \/ Forget(names)

LedgerSpec == LedgerInit /\ [][LedgerNext]_lvars
=============================================================================
