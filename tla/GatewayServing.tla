--------------------------- MODULE GatewayServing ---------------------------
(***************************************************************************)
(* The gateway as a whole: its lifecycle (GatewayLifecycle), and what its  *)
(* HAProxy does with requests (GatewayAdmission) from start to end of its  *)
(* container. Both go on by themselves: HAProxy serves while the process   *)
(* that started it is stopped, killed or sweeping, and forgets everything  *)
(* when its container ends.                                                *)
(***************************************************************************)
EXTENDS GatewayLifecycle, GatewayAdmission

vars == <<gvars, avars>>

Serving == \E o \in Owners : Listening(<<o, "main">>)

ServingInit == Init /\ AdmissionInit

\* Bound: requests come under the first gateway only, and HAProxy is idle when
\* the second one is made (two gateways share no names and no state of HAProxy);
\* for both, nothing is left of a configuration check.
NoCheckLeft == \A o \in Owners : LET n == <<o, "check">>
                                 IN  docker[n] = "absent" /\ n \notin asked \cup late \cup clients
FirstGateway == Cardinality(used) <= 1 /\ NoCheckLeft
IdleWhenMade == used' # used => AdmissionInit /\ NoCheckLeft
\* Bound: containers of other owners at a time.
OneStranger == Cardinality({n \in Names : docker'[n] \in Foreign}) <= 1

\* A step of the lifecycle: without HAProxy there is nothing but its first state.
LifecycleStep ==
    /\ Next
    /\ IdleWhenMade /\ OneStranger
    /\ IF Serving' THEN UNCHANGED avars
       ELSE /\ up' = {} /\ table' = [s \in Sessions |-> Nobody]
            /\ conn' = [c \in Connections |-> Free]

AdmissionStep == Serving /\ FirstGateway /\ Admission /\ UNCHANGED gvars

ServingSpec == ServingInit /\ [][LifecycleStep \/ AdmissionStep]_vars
=============================================================================
