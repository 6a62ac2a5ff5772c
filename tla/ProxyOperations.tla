--------------------------- MODULE ProxyOperations ---------------------------
(***************************************************************************)
(* What an operation of a data structure is made of.  Almost every method  *)
(* of a proxy has the same shape: the arguments are checked and            *)
(* serialized, a codec makes the request, the request is sent to a key's   *)
(* partition, to the partition of the structure's name or to any member,   *)
(* and the response is decoded by a codec.  An operation is a record of    *)
(* the choices a method makes:                                             *)
(*   codec    the codec that encodes the request,                          *)
(*   answer   the type of the codec that decodes the response, or Ignored, *)
(*   route    where the request goes,                                      *)
(*   args     the variable size arguments after the name, in order,        *)
(*   fields   the fixed size field of the request each source is put in,   *)
(*   checks   the numbers that are refused when they are out of range,     *)
(*   skips    whether an empty list makes the method return at once,       *)
(*   asks     whether the capacity is asked for first (ReadMany),          *)
(*   onError  what becomes of an error of the invocation.                  *)
(* The Near Cache branch of the map's methods is modelled in NearCache.    *)
(***************************************************************************)
EXTENDS MapCodecs, CollectionCodecs, ServiceCodecs

\* Where the value of a fixed size field comes from: the context's lock ID, a
\* new reference ID, an argument, a duration converted to milliseconds, a
\* constant of the method.
Source(kind, of) == [kind |-> kind, of |-> of]
LockID           == Source("lock ID", "context")
Reference        == Source("reference", "generator")
Given(argument)  == Source("given", argument)
Millis(argument) == Source("millis", argument)
Constant(value)  == Source("constant", value)
Unset            == Constant(-1)
NoFields         == <<>>

\* arguments: a value that must not be nil, a list of them, a value that may
\* be nil, and one whose type has no nil
Arg(name)   == [name |-> name, kind |-> "value"]
Args(name)  == [name |-> name, kind |-> "list"]
MayBeNil(name) == [name |-> name, kind |-> "nilable"]
Plain(name) == [name |-> name, kind |-> "plain"]

Ignored == 0    \* the response is not decoded

Operation(codec, route, args, fields) ==
    [codec |-> codec, answer |-> codec.request.type, route |-> route, args |-> args, fields |-> fields,
     checks |-> {}, skips |-> FALSE, asks |-> FALSE, onError |-> "returned"]

\* proxy.invokeOnKey, proxy.invokeOnPartition with the partition of the name,
\* proxy.invokeOnRandomTarget, one request for every partition, listenerBinder.Add
OnKey(codec, args, fields)    == Operation(codec, "key", args, fields)
OnName(codec, args, fields)   == Operation(codec, "name", args, fields)
Anywhere(codec, args, fields) == Operation(codec, "any", args, fields)
PerPartition(codec, args, fields) == Operation(codec, "partitions", args, fields)
Listening(codec, decoder, args, fields) ==
    [Operation(codec, "listener", args, fields) EXCEPT !.answer = decoder.request.type]

Unread(op)      == [op EXCEPT !.answer = Ignored]
SkipsEmpty(op)  == [op EXCEPT !.skips = TRUE]
Indexed(op)     == [op EXCEPT !.checks = DOMAIN op.fields]
Checked(op, fields) == [op EXCEPT !.checks = fields]
Swallows(op)    == [op EXCEPT !.onError = "swallowed"]
Panics(op)      == [op EXCEPT !.onError = "panics"]
=============================================================================
