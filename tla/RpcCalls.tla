------------------------------ MODULE RpcCalls ------------------------------
(***************************************************************************)
(* The calls one node makes: KademliaProtocol::call with its pending map,  *)
(* the response path of handle_datagram, and the wrappers call_ping_addr,  *)
(* call_ping_node, call_store_rpc, call_update_rpc,                        *)
(* call_status_list_update_rpc, call_delete_rpc, call_leave_rpc,           *)
(* call_find_node and call_find_value (src/src/protocol.rs).               *)
(*                                                                         *)
(* A call is one task that waits on a oneshot channel, here the field rx.  *)
(* The four write wrappers have the same control and are one operation,    *)
(* "store"; so are the two find wrappers, "find".  Peers are external:     *)
(* they answer a request with a message of its kind, or never.  What a     *)
(* wrapper asks of the routing table is kept as the call's verdict.        *)
(***************************************************************************)
EXTENDS Naturals, FiniteSets

CONSTANTS
    Calls,        \* the calls made, each at most once
    Peers,        \* whom they are made to
    Unaddressed,  \* the peers without a usable address
    Ops,          \* Ops[c]: the operations call c may be
    IdSpace,      \* message ids wrap here (2^32)
    MaxRestarts,  \* bound: restarts of the node
    NoCall

ASSUME RpcConstants ==
    /\ Unaddressed \subseteq Peers /\ IdSpace \in Nat \ {0} /\ NoCall \notin Calls
    /\ \A c \in Calls : Ops[c] \subseteq {"bootstrap", "ping", "store", "find", "leave"}
    /\ MaxRestarts \in Nat

VARIABLES
    nextMsgId,  \* next_msg_id
    pending,    \* pending: who waits for the response with an id
    calls,      \* the state of every call
    wire,       \* the requests and responses sent
    welcomed,   \* peers for whom a welcome_if_new was spawned
    restarts    \* how often the node has restarted

vars == <<nextMsgId, pending, calls, wire, welcomed, restarts>>

MsgIds == 0..(IdSpace - 1)
Empty  == [kind |-> "empty"]
Closed == [kind |-> "closed"]

\* A request or response; "of" names the call it belongs to, which the frame
\* does not carry.
Message(kind, c) ==
    [kind |-> kind, of |-> c, op |-> calls[c].op, peer |-> calls[c].peer, id |-> calls[c].id]

Idle == [pc |-> "idle"]

Init ==
    /\ nextMsgId = 0 /\ pending = [i \in MsgIds |-> NoCall]
    /\ calls = [c \in Calls |-> Idle]
    /\ wire = {} /\ welcomed = {}
    /\ restarts = 0

\* A sender that leaves the pending map is dropped, which closes its channel.
DropSender(i) ==
    IF pending[i] = NoCall THEN calls ELSE [calls EXCEPT ![pending[i]].rx = Closed]

\* The wrappers return early when the peer has no address or none that parses;
\* call_ping_node takes the latter for a failed ping.
NoAddress(c, op, p) ==
    /\ calls[c].pc = "idle" /\ p \in Unaddressed
    /\ \E v \in IF op = "ping" THEN {"none", "removed"} ELSE {"none"} :
          calls' = [calls EXCEPT ![c] = [pc |-> "done", op |-> op, verdict |-> v]]
    /\ UNCHANGED <<nextMsgId, pending, wire, welcomed, restarts>>

\* fetch_add.
NextId == nextMsgId' = (nextMsgId + 1) % IdSpace

\* call up to the insertion into the pending map.
Register(c, op, p) ==
    /\ calls[c].pc = "idle" /\ p \notin Unaddressed
    /\ NextId
    /\ pending' = [pending EXCEPT ![nextMsgId] = c]
    /\ calls' = [DropSender(nextMsgId) EXCEPT ![c] =
          [pc |-> "send", op |-> op, peer |-> p, id |-> nextMsgId, rx |-> Empty, verdict |-> "none"]]
    /\ UNCHANGED <<wire, welcomed, restarts>>

Send(c) ==
    /\ calls[c].pc = "send"
    /\ wire' = wire \cup {Message("request", c)}
    /\ calls' = [calls EXCEPT ![c].pc = "wait"]
    /\ UNCHANGED <<nextMsgId, pending, welcomed, restarts>>

\* What a wrapper does with the routing table when call gave it no response,
\* or one of another kind.
FailureVerdict(op) == IF op \in {"ping", "store", "find"} THEN "removed" ELSE "none"

\* A wrong ending of a call, which leaves its entry in the pending map.
GiveUpLeaking(c) ==
    /\ calls' = [calls EXCEPT ![c].pc = "done", ![c].verdict = FailureVerdict(calls[c].op)]
    /\ UNCHANGED <<nextMsgId, pending, wire, welcomed, restarts>>

\* The ending shared by a failed send, a timeout and a closed channel.
GiveUp(c) ==
    /\ pending' = [pending EXCEPT ![calls[c].id] = NoCall]
    /\ calls' = [DropSender(calls[c].id) EXCEPT
          ![c].pc = "done", ![c].verdict = FailureVerdict(calls[c].op)]
    /\ UNCHANGED <<nextMsgId, wire, welcomed, restarts>>

SendFails(c) == calls[c].pc = "send" /\ GiveUp(c)

\* A wrong wait, without a timeout.
StopWaitingWhenClosed(c) ==
    /\ calls[c].pc = "wait" /\ calls[c].rx = Closed
    /\ calls' = [calls EXCEPT ![c].pc = "expired"]
    /\ UNCHANGED <<nextMsgId, pending, wire, welcomed, restarts>>

\* The timeout fires, or the channel is closed; the entry is removed later,
\* under the lock.
StopWaiting(c) ==
    /\ calls[c].pc = "wait" /\ calls[c].rx \in {Empty, Closed}
    /\ calls' = [calls EXCEPT ![c].pc = "expired"]
    /\ UNCHANGED <<nextMsgId, pending, wire, welcomed, restarts>>

RemoveExpired(c) == calls[c].pc = "expired" /\ GiveUp(c)

\* The caller has its response.
Return(c) ==
    LET r == calls[c] IN
    /\ r.pc = "wait" /\ r.rx.kind = "response"
    /\ calls' = [calls EXCEPT ![c].pc = "done",
          ![c].verdict = IF r.rx.op = r.op THEN "answered" ELSE FailureVerdict(r.op)]
    /\ welcomed' = IF r.rx.op = r.op /\ r.op = "find" THEN welcomed \cup {r.peer} ELSE welcomed
    /\ UNCHANGED <<nextMsgId, pending, wire, restarts>>

\* The task that awaits a call is dropped where it stands: stop aborts the
\* refresh loop, or a Python caller cancels its coroutine.  Nothing of call runs
\* any more, so its entry stays in the pending map.  Leaves and pings of
\* contacts are tasks of their own, which nobody aborts.
Cancel(c) ==
    /\ calls[c].pc \in {"send", "wait", "expired"} /\ calls[c].op \in {"bootstrap", "store", "find"}
    /\ calls' = [calls EXCEPT ![c].pc = "cancelled"]
    /\ UNCHANGED <<nextMsgId, pending, wire, welcomed, restarts>>

-----------------------------------------------------------------------------
(* The network, the peers and the response path *)

\* A message sent may arrive at any time later, again and again, or never.

\* A peer handles a request (external).  A Leave is never answered.
PeerAnswers(m) ==
    /\ m.kind = "request" /\ m.op # "leave"
    /\ wire' = wire \cup {[m EXCEPT !.kind = "response"]}
    /\ UNCHANGED <<nextMsgId, pending, calls, welcomed, restarts>>

\* A wrong hand-over, to the oldest call that waits.
HandOverInOrder(m) ==
    LET waiting == {i \in MsgIds : pending[i] # NoCall}
        first   == CHOOSE i \in MsgIds : i \in waiting /\ \A j \in waiting : i <= j
    IN /\ waiting # {}
       /\ pending' = [pending EXCEPT ![first] = NoCall]
       /\ calls' = [calls EXCEPT ![pending[first]].rx = m]

\* The sender leaves the map and the message goes into its channel.
HandOver(m) ==
    /\ pending' = [pending EXCEPT ![m.id] = NoCall]
    /\ calls' = IF pending[m.id] = NoCall THEN calls ELSE [calls EXCEPT ![pending[m.id]].rx = m]

\* handle_datagram for a response.
HandleResponse(m) ==
    /\ m.kind = "response"
    /\ welcomed' = IF m.op \in {"ping", "bootstrap"} THEN welcomed \cup {m.peer} ELSE welcomed
    /\ HandOver(m)
    /\ UNCHANGED <<nextMsgId, wire, restarts>>

\* The node restarts under the same address: its calls are gone, its
\* counter is zero again, and what is under way still arrives.
Restart ==
    /\ restarts < MaxRestarts /\ restarts' = restarts + 1
    /\ nextMsgId' = 0 /\ pending' = [i \in MsgIds |-> NoCall]
    /\ calls' = [c \in Calls |-> IF calls[c].pc = "idle" THEN Idle ELSE [calls[c] EXCEPT !.pc = "done"]]
    /\ UNCHANGED <<wire, welcomed>>

Begin(c) ==
    \E op \in Ops[c], p \in Peers : Register(c, op, p) \/ NoAddress(c, op, p)

Proceed(c) == Send(c) \/ SendFails(c) \/ StopWaiting(c) \/ RemoveExpired(c) \/ Return(c)

Network == \E m \in wire : PeerAnswers(m) \/ HandleResponse(m)

Next == (\E c \in Calls : Begin(c) \/ Proceed(c) \/ Cancel(c)) \/ Network \/ Restart

Safety == Init /\ [][Next]_vars

\* Timers fire and tasks that can run are run; nothing is assumed of the
\* network or of the peers.
Spec == Safety /\ \A c \in Calls : WF_vars(Proceed(c))

-----------------------------------------------------------------------------
(* Properties *)

Started(c) == calls[c].pc \in {"send", "wait", "expired"}
HasId(c) == calls[c].pc # "idle" /\ "id" \in DOMAIN calls[c]

\* No two calls were given the same message id.
MsgIdsUnique ==
    \A c, d \in Calls : HasId(c) /\ HasId(d) /\ calls[c].id = calls[d].id => c = d

\* What call hands its caller is the response to its own request, however
\* late, repeated or reordered responses are, as long as ids are unique.
AnswersMatch ==
    MsgIdsUnique =>
        \A c \in Calls : HasId(c) /\ calls[c].rx.kind = "response" => calls[c].rx.of = c

\* The pending map holds the calls that can still be answered and no others
\* but those cancelled before their response came: an entry never outlives a
\* call that returned, and a call that waits for a response that has not come
\* is in the map under its id, even when ids wrap and calls push one another
\* out.
PendingExact ==
    /\ \A i \in MsgIds : pending[i] # NoCall =>
          (Started(pending[i]) \/ calls[pending[i]].pc = "cancelled") /\ calls[pending[i]].id = i
    /\ \A c \in Calls : calls[c].pc \in {"send", "wait"} /\ calls[c].rx = Empty
                           => pending[calls[c].id] = c

\* Every call returns unless its caller drops it: answered or not, whatever is
\* lost, and even when ids wrap and calls, cancelled ones among them, push one
\* another out of the pending map.
EveryCallReturns == \A c \in Calls : Started(c) ~> calls[c].pc \in {"done", "cancelled"}
=============================================================================
