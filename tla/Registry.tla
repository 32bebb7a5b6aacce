------------------------------- MODULE Registry -------------------------------
(***************************************************************************)
(* What registering a measurement promises: at any time one object per     *)
(* description, under the key of the request that made it, and every reply *)
(* names the object its request was bound to in one atomic step.           *)
(***************************************************************************)
CONSTANT Request

VARIABLES
    wanted,   \* the description each request registers
    objects,  \* the registered objects
    handle,   \* the object each request is bound to, or {}
    reply     \* "none", "failed", or the key of the object

regVars == <<wanted, objects, handle, reply>>

RegInit ==
    /\ objects = {}
    /\ handle = [r \in Request |-> {}]
    /\ reply = [r \in Request |-> "none"]

Same(r) == {o \in objects : o.checksum = wanted[r]}

\* The request makes the object, when there is none ...
Make(r) ==
    /\ handle[r] = {} /\ reply[r] = "none"
    /\ Same(r) = {}
    /\ objects' = objects \cup {[key |-> r, checksum |-> wanted[r]]}
    /\ handle' = [handle EXCEPT ![r] = {r}]
    /\ UNCHANGED <<wanted, reply>>

\* ... and gets the one there is otherwise.
Get(r) ==
    /\ handle[r] = {} /\ reply[r] = "none"
    /\ \E o \in Same(r) : handle' = [handle EXCEPT ![r] = {o.key}]
    /\ UNCHANGED <<wanted, objects, reply>>

Reply(r) ==
    /\ reply[r] = "none"
    /\ \E k \in handle[r] : reply' = [reply EXCEPT ![r] = k]
    /\ UNCHANGED <<wanted, objects, handle>>

Fail(r) ==
    /\ reply[r] = "none"
    /\ reply' = [reply EXCEPT ![r] = "failed"]
    /\ UNCHANGED <<wanted, objects, handle>>

\* The data of an object has expired.
Forget ==
    /\ \E o \in objects : objects' = objects \ {o}
    /\ UNCHANGED <<wanted, handle, reply>>

RegNext == (\E r \in Request : Make(r) \/ Get(r) \/ Reply(r) \/ Fail(r)) \/ Forget

RegSpec == RegInit /\ [][RegNext]_regVars
===============================================================================
