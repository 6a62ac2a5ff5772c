------------------------------ MODULE ProxyCall ------------------------------
(***************************************************************************)
(* One call of any method of any data structure, with the arguments an     *)
(* application can pass: the method checks and serializes them, sends its  *)
(* request and turns the answer, or the failure, into a result.  How the   *)
(* request travels and is retried is InvocationService; how it is encoded  *)
(* is Codecs; how a listener is bound to connections is ListenerBinder.    *)
(***************************************************************************)
EXTENDS MapProxies, CollectionProxies

CONSTANTS
    LockIDs,     \* lock IDs a context may carry; 0 is defaultLockID
    Durations,   \* durations an application passes, in microseconds
    Handlers,    \* sets of handlers a MapListener may have
    IndexConfigs \* arguments of Map.AddIndex

VARIABLE call

callVars == <<call>>

MethodNames == DOMAIN MapOperations \cup DOMAIN CollectionOperations
Method(name) ==
    IF name \in DOMAIN MapOperations THEN MapOperations[name] ELSE CollectionOperations[name]
NoRequest == <<>>
NoMethod  == "none"

ArgNames(op, kinds) == {op.args[n].name : n \in {m \in DOMAIN op.args : op.args[m].kind \in kinds}}
FieldSources(op)    == {op.fields[f].kind : f \in DOMAIN op.fields}

CallInit == call = [method |-> NoMethod, step |-> "done"]

\* The inputs that make a difference to the method: which argument is nil, or
\* holds a nil; whether the list is empty; which number is out of range; how
\* long the durations are; which lock ID the context carries.
Inputs(op) ==
  {in \in
    [nil    : {{}} \cup {{a} : a \in ArgNames(op, {"value", "list", "nilable"})},
     empty  : IF ArgNames(op, {"list"}) = {} THEN {FALSE} ELSE BOOLEAN,
     bad    : {{}} \cup {{f} : f \in op.checks \ {"indexConfig"}},
     micros : IF "millis" \in FieldSources(op) THEN Durations ELSE {0},
     lockID : LockIDs,
     index  : IF "indexConfig" \in op.checks THEN IndexConfigs ELSE {<<>>}] :
    \* an empty list holds no nil
    ~(in.empty /\ in.nil # {} /\ in.nil \subseteq ArgNames(op, {"list"}))}

---------------------------------------------------------------------------
(***************************************************************************)
(* The request.                                                            *)
(***************************************************************************)
Value(source, in) ==
    CASE source.kind = "lock ID"   -> in.lockID
      [] source.kind = "reference" -> 1
      [] source.kind = "millis"    -> in.micros \div 1000
      [] source.kind = "constant"  -> source.of
      [] source.kind = "given"     -> source.of

Place(op) ==
    CASE op.route = "key"        -> "partition of the key"
      [] op.route = "name"       -> "partition of the name"
      [] op.route = "partitions" -> "partition of every key"
      [] op.route = "any"        -> "any member"
      [] op.route = "listener"   -> "every connection"

RequestOf(op, in) ==
    [type |-> op.codec.request.type, place |-> Place(op),
     fields |-> [f \in DOMAIN op.fields |-> Value(op.fields[f], in)]]

\* validateAndSerialize and its relatives, NonNegativeInt32, the checks of
\* Ringbuffer.Add and ReadMany, validateAndNormalizeIndexConfig
Refused(op, in) ==
    \/ in.nil \cap ArgNames(op, {"value", "list"}) # {}
    \/ in.bad # {}
    \/ "indexConfig" \in op.checks /\ ~Map_validIndexConfig(in.index)

CallEnds(result) == call' = [call EXCEPT !.step = "done", !.result = result]

Sends(op) == call' = [call EXCEPT !.step = "sent", !.request = RequestOf(op, call.input)]

---------------------------------------------------------------------------
Begin ==
    /\ call.method = NoMethod
    /\ \E m \in MethodNames : \E in \in Inputs(Method(m)) :
           call' = [method |-> m, input |-> in, step |-> "begun", request |-> NoRequest,
                    executed |-> FALSE, result |-> "none", handler |-> "none"]

\* the part of the method before the request
Prepare ==
    /\ call.step = "begun"
    /\ LET op == Method(call.method)
       IN  IF op.skips /\ call.input.empty THEN CallEnds("nothing to do")
           ELSE IF Refused(op, call.input) THEN CallEnds("illegal argument")
           ELSE IF op.asks THEN call' = [call EXCEPT !.step = "asking"]
           ELSE Sends(op)

\* Ringbuffer.ReadMany asks for the capacity first; a failure to get it and a
\* capacity that is too small are the same error.
CapacityArrives(enough) ==
    /\ call.step = "asking"
    /\ IF enough THEN Sends(Method(call.method)) ELSE CallEnds("illegal argument")

\* the part after the request: the member has executed it and its answer is
\* decoded ...
Succeeds ==
    /\ call.step = "sent"
    /\ call' = [call EXCEPT !.step = "done", !.executed = TRUE, !.result = "answer"]

\* ... or the member has refused it, or no member has answered
Fails ==
    /\ call.step = "sent"
    /\ CallEnds(CASE Method(call.method).onError = "returned"  -> "error"
              [] Method(call.method).onError = "swallowed" -> "answer"
              [] Method(call.method).onError = "panics"    -> "panic")

\* an event for a MapListener; the member sends the types it was asked for
IsMapListener(m) ==
    m \in {"Map_AddListener", "Map_AddListenerWithKey", "Map_AddListenerWithPredicate",
           "Map_AddListenerWithPredicateAndKey"}

EventArrives ==
    /\ call.method # NoMethod /\ call.step = "done" /\ call.result = "answer" /\ call.handler = "none"
    /\ IsMapListener(call.method)
    /\ \E handlers \in Handlers : \E type \in Map_prepareFlagsOfMapListener(handlers) :
           LET h == Map_mapListenerEventHandler(type)
           IN  call' = [call EXCEPT !.handler = IF h \in handlers THEN h ELSE "nil"]

CallReturns == call.method # NoMethod /\ call.step = "done" /\ call' = [method |-> NoMethod, step |-> "done"]

CallNext ==
    \/ Begin \/ Prepare \/ (\E enough \in BOOLEAN : CapacityArrives(enough))
    \/ Succeeds \/ Fails \/ EventArrives \/ CallReturns

---------------------------------------------------------------------------
FixedNames(codec) == {codec.request.fixed[n].name : n \in DOMAIN codec.request.fixed}

\* keyed methods of the structures that are stored by key
StoredByKey(m) == \E n \in DOMAIN Method(m).args : Method(m).args[n].name = "key"
IsCP(m) == m \in DOMAIN CollectionOperations /\ Method(m).codec.request.params[1] # String

\* The methods whose errors do not reach the caller: Map.RemoveInterceptor,
\* cp.Map.Get and Remove return no error, cp.Map.CompareAndSet decodes a nil
\* response.
LosesErrors == {"Map_RemoveInterceptor", "CPMap_Get", "CPMap_Remove", "CPMap_CompareAndSet"}

RequestIsRight(m, in) ==
    LET op == Method(m)
    IN  /\ DOMAIN call.request.fields = FixedNames(op.codec)
        /\ Len(op.args) + (IF IsCP(m) THEN 2 ELSE 1) = Len(op.codec.request.params)
        /\ op.answer \in {op.codec.request.type} \cup (IF op.route = "listener" THEN {} ELSE {Ignored})
        /\ "threadId" \in FixedNames(op.codec) => call.request.fields["threadId"] = in.lockID
        /\ op.route # "listener" /\ StoredByKey(m) /\ ~IsCP(m) => call.request.place = "partition of the key"

(***************************************************************************)
(* What a caller is told is what happened.  A call that returned an answer *)
(* was executed, one that was refused for an argument was not sent, one    *)
(* that sent a request put every argument in its field and addressed the   *)
(* partition of its key with the lock ID of its context, and an event      *)
(* finds the handler it was subscribed for.                                *)
(***************************************************************************)
CallReportsOutcome ==
    call.method # NoMethod =>
        /\ call.step = "done" /\ call.result = "answer" /\ call.method \notin LosesErrors => call.executed
        /\ call.step = "done" /\ call.result = "panic" => call.method \in LosesErrors
        /\ Refused(Method(call.method), call.input) => call.request = NoRequest
        /\ call.request # NoRequest => RequestIsRight(call.method, call.input)
        /\ call.handler # "nil"
=============================================================================
