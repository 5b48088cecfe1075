---------------------------- MODULE ComputeHelper ---------------------------
(***************************************************************************)
(* The compute helper: a client hashes a file, signs and sends it; threads *)
(* of the helper check the time and the request id, take a slot, store the *)
(* upload, inspect it, remove it and answer.  The connection may deliver a *)
(* request twice, late or not at all, and lose answers.  The signatures    *)
(* hold, so that messages are not altered.                                 *)
(***************************************************************************)
EXTENDS Integers, FiniteSets

CONSTANTS
    InspectRequests,        \* request ids of the client
    HandlerThreads,
    max_inflight,
    timestamp_skew_seconds,
    replay_ttl_seconds,
    replay_capacity,
    MaxHandlerDelay,        \* time from the check of the time to the claim,
                            \* with the fraction of a second the check drops
    MaxDeliveries,          \* bound on deliveries, repeated ones too
    MaxHelperTime           \* bound on the clock

(* The configuration checks each value by itself: whether an id is remembered
   for as long as its time is accepted is left to whoever sets them, and the
   defaults of 300 and 600 seconds are not enough for it by one second. *)
ASSUME HelperAssumption ==
    /\ {max_inflight, replay_capacity, MaxDeliveries} \subseteq Nat \ {0}
    /\ {timestamp_skew_seconds, replay_ttl_seconds, MaxHandlerDelay,
        MaxHelperTime} \subseteq Nat
    /\ timestamp_skew_seconds <= MaxHelperTime

VARIABLES
    helperClock,
    sourceFile,     \* version of the file the client inspects
    request,        \* requests: [step, time, sum, body]
    verdict,        \* what the client took as the verdict, 0 if nothing
    handler,        \* threads: [step, id, since]
    entries,        \* _entries of ReplayGuard: expiry by id, 0 if none
    uploads,        \* temporary file of each thread, 0 if none
    leftUploads,    \* requests with a temporary file nobody removes
    claims,         \* history: how often each request was let in
    answers,        \* answers on their way: [id, status, sum, about]
    deliveries

helperVars == <<helperClock, sourceFile, request, verdict, handler, entries,
                uploads, leftUploads, claims, answers, deliveries>>

FileVersions == {1, 2}

NoRequest == [step |-> "new", time |-> 0, sum |-> 0, body |-> 0]
NoHandler == [step |-> "idle", id |-> "none", since |-> 0]

HelperInit ==
    /\ helperClock = timestamp_skew_seconds
    /\ sourceFile = 1
    /\ request = [r \in InspectRequests |-> NoRequest]
    /\ verdict = [r \in InspectRequests |-> 0]
    /\ handler = [t \in HandlerThreads |-> NoHandler]
    /\ entries = [r \in InspectRequests |-> 0]
    /\ uploads = [t \in HandlerThreads |-> 0]
    /\ leftUploads = {}
    /\ claims = [r \in InspectRequests |-> 0]
    /\ answers = {}
    /\ deliveries = 0

-----------------------------------------------------------------------------
(* inspect_remote_file *)

(* The clocks of client and helper differ. *)
sign_request(r) ==
    /\ request[r].step = "new"
    /\ \E time \in (helperClock - timestamp_skew_seconds)
                     ..(helperClock + timestamp_skew_seconds) :
          request' = [request EXCEPT ![r].step = "signed", ![r].time = time,
                                     ![r].sum = sourceFile]
    /\ UNCHANGED <<helperClock, sourceFile, verdict, handler, entries,
                   uploads, leftUploads, claims, answers, deliveries>>

(* The body is read when it is sent. *)
request_sent(r) ==
    /\ request[r].step = "signed"
    /\ request' = [request EXCEPT ![r].step = "sent", ![r].body = sourceFile]
    /\ UNCHANGED <<helperClock, sourceFile, verdict, handler, entries,
                   uploads, leftUploads, claims, answers, deliveries>>

file_replaced ==
    /\ sourceFile = 1
    /\ sourceFile' = 2
    /\ UNCHANGED <<helperClock, request, verdict, handler, entries, uploads,
                   leftUploads, claims, answers, deliveries>>

(* An error status or a wrong hash is an error of the call. *)
verify_response_signature(r, answer) ==
    answer.status = 200 /\ answer.sum = request[r].sum

response_read(r, answer) ==
    /\ request[r].step = "sent" /\ answer.id = r
    /\ request' = [request EXCEPT ![r].step = "done"]
    /\ verdict' = [verdict EXCEPT ![r] =
                      IF verify_response_signature(r, answer)
                      THEN answer.about ELSE 0]
    /\ answers' = {a \in answers : a.id # r}
    /\ UNCHANGED <<helperClock, sourceFile, handler, entries, uploads,
                   leftUploads, claims, deliveries>>

client_timeout(r) ==
    /\ request[r].step = "sent"
    /\ request' = [request EXCEPT ![r].step = "done"]
    /\ answers' = {a \in answers : a.id # r}
    /\ UNCHANGED <<helperClock, sourceFile, verdict, handler, entries,
                   uploads, leftUploads, claims, deliveries>>

-----------------------------------------------------------------------------
(* do_POST *)

(* Nobody reads the answer once the client has given up.  The unsigned answers
   401 and 409 are to the client what a lost answer is. *)
Answer(t, status, about) ==
    LET r == handler[t].id
    IN  answers' = IF request[r].step = "sent"
                   THEN answers \cup {[id |-> r, status |-> status,
                                       sum |-> request[r].sum,
                                       about |-> about]}
                   ELSE answers

HandlerTo(t, step) ==
    handler' = [handler EXCEPT ![t].step = step, ![t].since = 0]
HandlerEnds(t) == handler' = [handler EXCEPT ![t] = NoHandler]

(* A request whose time is not accepted is refused at once. *)
post_checked(t, r) ==
    /\ handler[t].step = "idle"
    /\ request[r].step \in {"sent", "done"} /\ request[r].body # 0
    /\ deliveries < MaxDeliveries
    /\ deliveries' = deliveries + 1
    /\ IF helperClock - request[r].time \in
             (-timestamp_skew_seconds)..timestamp_skew_seconds
       THEN handler' = [handler EXCEPT ![t] = [step |-> "claim", id |-> r,
                                               since |-> helperClock]]
       ELSE UNCHANGED handler
    /\ UNCHANGED <<helperClock, sourceFile, request, verdict, entries,
                   uploads, leftUploads, claims, answers>>

Unexpired ==
    [r \in InspectRequests |->
        IF entries[r] <= helperClock THEN 0 ELSE entries[r]]

(* A mutant: an entry lasts as long as a time is accepted from now on. *)
MutantShortMemory(t) ==
    /\ handler[t].step = "claim"
    /\ LET id == handler[t].id
           fresh == /\ Unexpired[id] = 0
                    /\ Cardinality({r \in InspectRequests :
                            Unexpired[r] # 0}) < replay_capacity
       IN  /\ entries' = IF fresh
                         THEN [Unexpired EXCEPT ![id] =
                                  helperClock + timestamp_skew_seconds]
                         ELSE Unexpired
           /\ claims' = IF fresh THEN [claims EXCEPT ![id] = @ + 1]
                        ELSE claims
           /\ IF fresh THEN HandlerTo(t, "slot") ELSE HandlerEnds(t)
    /\ UNCHANGED <<helperClock, sourceFile, request, verdict, uploads,
                   leftUploads, answers, deliveries>>

(* ReplayGuard.claim; a full guard refuses too. *)
claim(t) ==
    /\ handler[t].step = "claim"
    /\ LET id == handler[t].id
           fresh == /\ Unexpired[id] = 0
                    /\ Cardinality({r \in InspectRequests :
                            Unexpired[r] # 0}) < replay_capacity
       IN  /\ entries' = IF fresh
                         THEN [Unexpired EXCEPT ![id] =
                                  helperClock + replay_ttl_seconds]
                         ELSE Unexpired
           /\ claims' = IF fresh THEN [claims EXCEPT ![id] = @ + 1]
                        ELSE claims
           /\ IF fresh THEN HandlerTo(t, "slot") ELSE HandlerEnds(t)
    /\ UNCHANGED <<helperClock, sourceFile, request, verdict, uploads,
                   leftUploads, answers, deliveries>>

Inflight == {t \in HandlerThreads :
                handler[t].step \in {"reading", "stored", "inspected"}}

(* The id stays claimed when the helper is busy. *)
inflight_acquire(t) ==
    /\ handler[t].step = "slot"
    /\ IF Cardinality(Inflight) < max_inflight
       THEN HandlerTo(t, "reading") /\ UNCHANGED answers
       ELSE HandlerEnds(t) /\ Answer(t, 429, 0)
    /\ UNCHANGED <<helperClock, sourceFile, request, verdict, entries,
                   uploads, leftUploads, claims, deliveries>>

(* The file is removed again when the body is cut off or has another hash; if
   that fails, or if the complete file cannot be synced, it stays. *)
_read_authenticated_payload(t) ==
    /\ handler[t].step = "reading"
    /\ LET r == handler[t].id
       IN  \/ /\ request[r].body = request[r].sum
              /\ uploads' = [uploads EXCEPT ![t] = request[r].body]
              /\ HandlerTo(t, "stored")
              /\ UNCHANGED <<answers, leftUploads>>
           \/ /\ Answer(t, 400, 0)
              /\ leftUploads' \in {leftUploads, leftUploads \cup {r}}
              /\ HandlerEnds(t)
              /\ UNCHANGED uploads
    /\ UNCHANGED <<helperClock, sourceFile, request, verdict, entries,
                   claims, deliveries>>

(* Nothing else writes to the helper's directory, the file does not change
   while it is read. *)
inspect_local_file(t) ==
    /\ handler[t].step = "stored"
    /\ HandlerTo(t, "inspected")
    /\ UNCHANGED <<helperClock, sourceFile, request, verdict, entries,
                   uploads, leftUploads, claims, answers, deliveries>>

(* The upload is removed, then the answer sent; if that fails the removal is
   tried once more without a look at the result. *)
post_answered(t) ==
    /\ handler[t].step = "inspected"
    /\ \/ Answer(t, 200, uploads[t]) /\ UNCHANGED leftUploads
       \/ /\ Answer(t, 500, 0)
          /\ leftUploads' \in {leftUploads, leftUploads \cup {handler[t].id}}
    /\ uploads' = [uploads EXCEPT ![t] = 0]
    /\ HandlerEnds(t)
    /\ UNCHANGED <<helperClock, sourceFile, request, verdict, entries,
                   claims, deliveries>>

(* The connection is broken: nothing is answered, the removal of the upload is
   tried. *)
post_broken(t) ==
    /\ handler[t].step \in {"reading", "stored", "inspected"}
    /\ leftUploads' \in {leftUploads, leftUploads \cup {handler[t].id}}
    /\ uploads' = [uploads EXCEPT ![t] = 0]
    /\ HandlerEnds(t)
    /\ UNCHANGED <<helperClock, sourceFile, request, verdict, entries,
                   claims, answers, deliveries>>

helper_time_passes ==
    /\ helperClock < MaxHelperTime
    /\ \A t \in HandlerThreads :
          handler[t].step = "claim" =>
              helperClock < handler[t].since + MaxHandlerDelay
    /\ helperClock' = helperClock + 1
    /\ UNCHANGED <<sourceFile, request, verdict, handler, entries, uploads,
                   leftUploads, claims, answers, deliveries>>

HelperNext ==
    \/ \E r \in InspectRequests :
          \/ sign_request(r) \/ request_sent(r) \/ client_timeout(r)
          \/ \E answer \in answers : response_read(r, answer)
          \/ \E t \in HandlerThreads : post_checked(t, r)
    \/ \E t \in HandlerThreads :
          \/ claim(t) \/ inflight_acquire(t) \/ _read_authenticated_payload(t)
          \/ inspect_local_file(t) \/ post_answered(t) \/ post_broken(t)
    \/ file_replaced \/ helper_time_passes

HelperSpec == HelperInit /\ [][HelperNext]_helperVars

-----------------------------------------------------------------------------

HelperTypeOK ==
    /\ helperClock \in 0..MaxHelperTime
    /\ sourceFile \in FileVersions
    /\ \A r \in InspectRequests :
          /\ request[r].step \in {"new", "signed", "sent", "done"}
          /\ {request[r].sum, request[r].body} \subseteq {0} \cup FileVersions
    /\ verdict \in [InspectRequests -> {0} \cup FileVersions]
    /\ \A t \in HandlerThreads :
          handler[t].step \in {"idle", "claim", "slot", "reading", "stored",
                               "inspected"}
    /\ uploads \in [HandlerThreads -> {0} \cup FileVersions]
    /\ leftUploads \subseteq InspectRequests
    /\ deliveries \in 0..MaxDeliveries

(* A request that is delivered again, late or beside itself is let in again
   only after its entry has expired, while its time is still accepted: once if
   an id is remembered for longer than that, twice by the defaults. *)
LetInSeldom ==
    \A r \in InspectRequests :
        (claims[r] - 1) * replay_ttl_seconds
            <= 2 * timestamp_skew_seconds + MaxHandlerDelay

(* A verdict the client takes is about the bytes it signed, and if the request
   was let in once, the helper no longer stores them. *)
VerdictIsExact ==
    \A r \in InspectRequests : verdict[r] # 0 =>
        /\ verdict[r] = request[r].sum
        /\ claims[r] = 1 =>
              /\ r \notin leftUploads
              /\ \A t \in HandlerThreads :
                    handler[t].id = r => uploads[t] = 0

(* The helper lets a request in no more often than the memory of its guard
   allows, and a verdict the client takes is about what it signed and what
   the helper has removed. *)
HelperExact == LetInSeldom /\ VerdictIsExact
=============================================================================
