------------------------------ MODULE RemoteCall ------------------------------
(***************************************************************************)
(* What the client promises of a request, whatever connections are lost on *)
(* the way and however often the request is tried again.  The caller is    *)
(* told one result, once; success is reported only for what a member did.  *)
(* A request that may not be redone is executed once at the most, and not  *)
(* any more once the caller was told that the client is not active: this   *)
(* result means that the request had no effect and will have none.         *)
(***************************************************************************)
EXTENDS Integers

CONSTANTS
    Calls,  \* requests of the user
    Redo,   \* those that may be executed more than once
    Tries   \* numbers of the tries of a request

VARIABLES
    begun,      \* requests the client has taken up
    told,       \* what the caller of a request was told
    executions  \* how often a member executed a try of a request

Results == {"ok", "error", "cancelled", "notactive", "closed"}

remoteVars == <<begun, told, executions>>

Init ==
    /\ begun = {}
    /\ told = [c \in Calls |-> "none"]
    /\ executions = [t \in Calls \X Tries |-> 0]

Executed(c) == \E n \in Tries : executions[<<c, n>>] > 0

Begin(c) ==
    /\ c \notin begun /\ told[c] = "none"
    /\ begun' = begun \cup {c}
    /\ UNCHANGED <<told, executions>>

Execute(c, n) ==
    /\ c \in begun
    /\ c \in Redo \/ (~Executed(c) /\ told[c] # "notactive")
    /\ executions' = [executions EXCEPT ![<<c, n>>] = @ + 1]
    /\ UNCHANGED <<begun, told>>

Tell(c, result) ==
    /\ told[c] = "none"
    /\ result = "ok" => Executed(c)
    /\ result = "notactive" /\ c \notin Redo => ~Executed(c)
    /\ told' = [told EXCEPT ![c] = result]
    /\ UNCHANGED <<begun, executions>>

Next ==
    \E c \in Calls :
        \/ Begin(c)
        \/ \E n \in Tries : Execute(c, n)
        \/ \E result \in Results : Tell(c, result)

Spec == Init /\ [][Next]_remoteVars
=============================================================================
