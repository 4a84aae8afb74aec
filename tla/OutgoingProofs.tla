--------------------------- MODULE OutgoingProofs ---------------------------
(***************************************************************************)
(* Proofs about what a node asks of others.                                *)
(*                                                                         *)
(* RpcCalls, for any calls, peers and id space: what the pending map       *)
(* holds, and that a response finds the call it answers.                   *)
(*                                                                         *)
(* Lookup, for any finite network, heap size, width of a round and         *)
(* starting nodes: what the heap keeps although it is trimmed and failed   *)
(* nodes leave it, and what a value lookup returns.                        *)
(*                                                                         *)
(* Refresh, for any hour, length of a round, id length, entries and        *)
(* splits: no region of the ids and no stored entry is left alone for      *)
(* longer than the loop allows.                                            *)
(***************************************************************************)
EXTENDS RpcCalls, Lookup, Refresh, FiniteSetTheorems, TLAPS

-----------------------------------------------------------------------------
(* Calls *)

\* The operations that occur.
CallOps == UNION {Ops[c] : c \in Calls}

\* The messages that can be under way, and the states of a call: refused for
\* want of an address, or registered.
Messages ==
    [kind : {"request", "response"}, of : Calls, op : CallOps, peer : Peers, id : MsgIds]

Refused == [pc : {"done"}, op : CallOps, verdict : {"none", "removed"}]

Registered ==
    [pc : {"send", "wait", "expired", "done", "cancelled"}, op : CallOps, peer : Peers, id : MsgIds,
     rx : {Empty, Closed} \cup Messages, verdict : {"none", "removed", "answered"}]

Typed ==
    /\ nextMsgId \in MsgIds
    /\ pending \in [MsgIds -> Calls \cup {NoCall}]
    /\ calls \in [Calls -> {Idle} \cup Refused \cup Registered]
    /\ wire \subseteq Messages

\* A message was sent for a call that is registered under its id.
Sent(m) == calls[m.of] \in Registered /\ calls[m.of].id = m.id

WireSound == \A m \in wire : Sent(m)

\* What is in a channel was sent under the id of the call that waits on it.
ChannelsSound ==
    \A c \in Calls, m \in Messages : calls[c] \in Registered /\ calls[c].rx = m =>
        Sent(m) /\ m.id = calls[c].id

\* An entry of the pending map belongs to a call that has not returned, under
\* its own id, and nothing has come for it yet; whoever waits with an empty
\* channel has such an entry.
EntriesWait ==
    /\ \A i \in MsgIds : pending[i] # NoCall =>
          /\ calls[pending[i]] \in Registered /\ calls[pending[i]].id = i
          /\ calls[pending[i]].pc # "done" /\ calls[pending[i]].rx = Empty
    /\ \A c \in Calls : calls[c] \in Registered /\ calls[c].pc \in {"send", "wait"} /\ calls[c].rx = Empty
                           => pending[calls[c].id] = c

IInv == Typed /\ WireSound /\ ChannelsSound /\ EntriesWait

-----------------------------------------------------------------------------
(* The states of a call *)

\* The states differ in their fields and in their program counters.
LEMMA States ==
    /\ Idle \notin Registered /\ Idle \notin Refused
    /\ \A r \in Refused : r \notin Registered /\ r.pc = "done" /\ "id" \notin DOMAIN r
    /\ \A r \in Registered : r.pc # "idle" /\ "id" \in DOMAIN r
    /\ Idle.pc = "idle"
    /\ \A m \in Messages : m # Empty /\ m # Closed
<1>1. Idle \notin Registered /\ Idle \notin Refused /\ Idle.pc = "idle"
    BY Zenon DEF Idle, Registered, Refused
<1>2. \A r \in Refused : r.pc = "done" /\ DOMAIN r = {"pc", "op", "verdict"}
    BY Zenon DEF Refused
<1>3. \A r \in Registered : r.pc # "idle" /\ DOMAIN r = {"pc", "op", "peer", "id", "rx", "verdict"}
    BY Zenon DEF Registered
<1>4. \A m \in Messages : m # Empty /\ m # Closed
    BY DEF Messages, Empty, Closed
<1> QED
    BY <1>1, <1>2, <1>3, <1>4

\* A call that has an id is registered, and conversely.
LEMMA HasIdMeans ==
    ASSUME Typed, NEW c \in Calls
    PROVE  HasId(c) <=> calls[c] \in Registered
    BY States, Zenon DEF Typed, HasId

\* Initially no call is made and nothing is under way.
LEMMA InitSound == Init => IInv
<1> SUFFICES ASSUME Init PROVE IInv
    BY Zenon
<1>1. Typed
    BY RpcConstants DEF Init, Typed, MsgIds
<1>2. \A c \in Calls : calls[c] = Idle
    BY Zenon DEF Init
<1> QED
    BY <1>1, <1>2, States, Zenon DEF Init, IInv, WireSound, ChannelsSound, EntriesWait

-----------------------------------------------------------------------------
(* Steps *)

\* A registered call stays registered under its id.
IdsKept ==
    \A c \in Calls : calls[c] \in Registered => calls'[c] \in Registered /\ calls'[c].id = calls[c].id

\* So what was sent for it stays what was sent for it.
LEMMA SentKept ==
    ASSUME IdsKept, NEW m \in Messages, Sent(m)
    PROVE  Sent(m)'
    BY Zenon DEF IdsKept, Sent, Messages

\* A registered call goes to another state, keeps its id and its channel, and
\* ends only if the channel is no longer empty.
LEMMA MoveSound ==
    ASSUME IInv, NEW c \in Calls, calls[c] \in Registered,
           NEW y \in Registered, calls' = [calls EXCEPT ![c] = y],
           y.id = calls[c].id, y.rx = calls[c].rx, y.pc = "done" => y.rx # Empty,
           y.pc \in {"send", "wait"} => calls[c].pc \in {"send", "wait"},
           UNCHANGED <<nextMsgId, pending>>,
           wire' \subseteq Messages, \A m \in wire' : m \in wire \/ Sent(m)
    PROVE  IInv'
<1>1. /\ calls' \in [Calls -> {Idle} \cup Refused \cup Registered]
      /\ calls'[c] = y /\ \A d \in Calls \ {c} : calls'[d] = calls[d]
    BY Zenon DEF IInv, Typed
<1>2. Typed'
    BY <1>1, Zenon DEF IInv, Typed
<1>3. IdsKept
    BY <1>1, Zenon DEF IdsKept
<1>4. WireSound'
    BY <1>3, SentKept, Zenon DEF IInv, WireSound
<1>5. ChannelsSound'
    BY <1>1, <1>3, SentKept, Zenon DEF IInv, ChannelsSound
<1>6. EntriesWait'
    BY <1>1 DEF IInv, Typed, EntriesWait
<1> QED
    BY <1>2, <1>4, <1>5, <1>6, Zenon DEF IInv

\* The calls and the pending map stay, and nothing new is under way but for
\* calls that are registered.
LEMMA WireStepSound ==
    ASSUME IInv, UNCHANGED <<nextMsgId, pending, calls>>,
           wire' \subseteq Messages, \A m \in wire' : Sent(m)
    PROVE  IInv'
<1>1. Typed' /\ IdsKept
    BY Zenon DEF IInv, Typed, IdsKept
<1>2. WireSound'
    BY <1>1, SentKept, Zenon DEF WireSound
<1>3. ChannelsSound' /\ EntriesWait'
    BY DEF IInv, ChannelsSound, EntriesWait, Sent
<1> QED
    BY <1>1, <1>2, <1>3, Zenon DEF IInv

\* A call that waits or sends is registered.
LEMMA Active ==
    ASSUME Typed, NEW c \in Calls, calls[c].pc \in {"send", "wait", "expired"}
    PROVE  calls[c] \in Registered
    BY States, Zenon DEF Typed

\* Dropping the sender of an id closes the channel of the call whose entry it
\* was, and leaves the others alone.
LEMMA SenderDropped ==
    ASSUME IInv, NEW i \in MsgIds
    PROVE  /\ DropSender(i) \in [Calls -> {Idle} \cup Refused \cup Registered]
           /\ \A d \in Calls : d # pending[i] => DropSender(i)[d] = calls[d]
           /\ pending[i] # NoCall =>
                /\ pending[i] \in Calls
                /\ DropSender(i)[pending[i]] \in Registered
                /\ DropSender(i)[pending[i]].id = i
                /\ DropSender(i)[pending[i]].pc = calls[pending[i]].pc
                /\ DropSender(i)[pending[i]].rx = Closed
<1>1. CASE pending[i] = NoCall
    BY <1>1, Zenon DEF DropSender, IInv, Typed
<1>2. CASE pending[i] # NoCall
  <2>1. pending[i] \in Calls /\ calls[pending[i]] \in Registered /\ calls[pending[i]].id = i
      BY <1>2 DEF IInv, Typed, EntriesWait
  <2> DEFINE y == [calls[pending[i]] EXCEPT !.rx = Closed]
  <2>2. y \in Registered /\ y.id = i /\ y.pc = calls[pending[i]].pc /\ y.rx = Closed
      BY <2>1, Zenon DEF Registered
  <2>3. DropSender(i) = [calls EXCEPT ![pending[i]] = y]
      BY <1>2, <2>1, Zenon DEF DropSender, IInv, Typed
  <2> HIDE DEF y
  <2> QED
      BY <2>1, <2>2, <2>3, Zenon DEF IInv, Typed
<1> QED
    BY <1>1, <1>2, Zenon

\* Register: the id may belong to an older call, which loses its entry and
\* finds its channel closed.
LEMMA RegisterSound ==
    ASSUME IInv, NEW c \in Calls, NEW op \in CallOps, NEW p \in Peers, Register(c, op, p)
    PROVE  IInv'
<1> DEFINE n == nextMsgId
           D == DropSender(n)
           y == [pc |-> "send", op |-> op, peer |-> p, id |-> n, rx |-> Empty, verdict |-> "none"]
<1>1. n \in MsgIds /\ nextMsgId' \in MsgIds
    BY RpcConstants DEF Register, NextId, IInv, Typed, MsgIds
<1>2. y \in Registered /\ y.id = n /\ y.pc = "send" /\ y.rx = Empty
    BY <1>1, Zenon DEF Registered
<1>3. calls[c] \notin Registered
    BY States, Zenon DEF Register
<1>4. c # pending[n]
    BY <1>1, <1>3, RpcConstants DEF IInv, Typed, EntriesWait
<1>5. /\ D \in [Calls -> {Idle} \cup Refused \cup Registered]
      /\ \A d \in Calls : d # pending[n] => D[d] = calls[d]
      /\ pending[n] # NoCall => /\ pending[n] \in Calls /\ D[pending[n]] \in Registered
                                /\ D[pending[n]].id = n /\ D[pending[n]].rx = Closed
                                /\ D[pending[n]].pc = calls[pending[n]].pc
    BY <1>1, SenderDropped, Zenon
<1> HIDE DEF D, y
<1>6. calls' = [D EXCEPT ![c] = y] /\ pending' = [pending EXCEPT ![n] = c] /\ wire' = wire
    BY Zenon DEF Register, D, y
<1>7. /\ calls' \in [Calls -> {Idle} \cup Refused \cup Registered]
      /\ calls'[c] = y /\ \A d \in Calls \ {c} : calls'[d] = D[d]
    BY <1>2, <1>5, <1>6, Zenon
<1>8. pending' \in [MsgIds -> Calls \cup {NoCall}] /\ pending'[n] = c
      /\ \A i \in MsgIds \ {n} : pending'[i] = pending[i]
    BY <1>1, <1>6, Zenon DEF IInv, Typed
<1>9. Typed'
    BY <1>1, <1>6, <1>7, <1>8, Zenon DEF IInv, Typed
<1>10. pending[n] # NoCall => calls[pending[n]] \in Registered /\ calls[pending[n]].id = n
    BY <1>1, Zenon DEF IInv, EntriesWait
<1>11. IdsKept
  <2> SUFFICES ASSUME NEW d \in Calls, calls[d] \in Registered
               PROVE  calls'[d] \in Registered /\ calls'[d].id = calls[d].id
      BY Zenon DEF IdsKept
  <2>1. calls'[d] = D[d]
      BY <1>3, <1>7, Zenon
  <2>2. CASE d = pending[n]
      BY <1>5, <1>10, <2>1, <2>2, RpcConstants, Zenon
  <2>3. CASE d # pending[n]
      BY <1>5, <2>1, <2>3, Zenon
  <2> QED
      BY <2>2, <2>3, Zenon
<1>12. WireSound'
    BY <1>6, <1>11, SentKept, Zenon DEF IInv, WireSound, Typed
<1>13. ChannelsSound'
  <2> SUFFICES ASSUME NEW d \in Calls, NEW m \in Messages, calls'[d] \in Registered, calls'[d].rx = m
               PROVE  Sent(m)' /\ m.id = calls'[d].id
      BY Zenon DEF ChannelsSound
  <2>1. d # c /\ d # pending[n]
      BY <1>2, <1>5, <1>7, States, RpcConstants
  <2>2. calls'[d] = calls[d]
      BY <1>5, <1>7, <2>1, Zenon
  <2> QED
      BY <1>11, <2>2, SentKept, Zenon DEF IInv, ChannelsSound
<1>14. EntriesWait'
  <2>1. ASSUME NEW i \in MsgIds, pending'[i] # NoCall
        PROVE  /\ calls'[pending'[i]] \in Registered /\ calls'[pending'[i]].id = i
               /\ calls'[pending'[i]].pc # "done" /\ calls'[pending'[i]].rx = Empty
    <3>1. CASE i = n
        BY <1>2, <1>7, <1>8, <3>1, Zenon
    <3>2. CASE i # n
      <4>1. PICK d \in Calls : d = pending[i] /\ pending'[i] = d
          BY <1>8, <2>1, <3>2, Zenon DEF IInv, Typed
      <4>2. /\ calls[d] \in Registered /\ calls[d].id = i /\ calls[d].pc # "done" /\ calls[d].rx = Empty
          BY <1>8, <2>1, <3>2, <4>1 DEF IInv, EntriesWait
      <4>3. d # c /\ d # pending[n]
          BY <1>3, <1>10, <3>2, <4>2, RpcConstants, Zenon
      <4> QED
          BY <1>5, <1>7, <4>1, <4>2, <4>3
    <3> QED
        BY <3>1, <3>2, Zenon
  <2>2. ASSUME NEW d \in Calls, calls'[d] \in Registered, calls'[d].pc \in {"send", "wait"}, calls'[d].rx = Empty
        PROVE  pending'[calls'[d].id] = d
    <3>1. CASE d = c
        BY <1>2, <1>7, <1>8, <3>1, Zenon
    <3>2. CASE d # c
      <4>1. d # pending[n]
          BY <1>5, <1>7, <2>2, <3>2, RpcConstants DEF Empty, Closed
      <4>2. calls'[d] = calls[d]
          BY <1>5, <1>7, <3>2, <4>1, Zenon
      <4>3. pending[calls[d].id] = d /\ calls[d].id \in MsgIds
          BY <2>2, <4>2, Zenon DEF IInv, EntriesWait, Registered
      <4> QED
          BY <1>8, <4>1, <4>2, <4>3, Zenon
    <3> QED
        BY <3>1, <3>2, Zenon
  <2> QED
      BY <2>1, <2>2, Zenon DEF EntriesWait
<1> QED
    BY <1>9, <1>12, <1>13, <1>14, Zenon DEF IInv

\* NoAddress: a call that is never registered.
LEMMA NoAddressSound ==
    ASSUME IInv, NEW c \in Calls, NEW op \in CallOps, NEW p \in Peers, NoAddress(c, op, p)
    PROVE  IInv'
<1>1. PICK y \in Refused : calls' = [calls EXCEPT ![c] = y]
    BY Zenon DEF NoAddress, Refused
<1>2. calls[c] \notin Registered /\ y \notin Registered
    BY States, Zenon DEF NoAddress
<1>3. /\ calls' \in [Calls -> {Idle} \cup Refused \cup Registered]
      /\ calls'[c] = y /\ \A d \in Calls \ {c} : calls'[d] = calls[d]
    BY <1>1, Zenon DEF IInv, Typed
<1>4. UNCHANGED <<nextMsgId, pending, wire>>
    BY Zenon DEF NoAddress
<1>5. Typed' /\ IdsKept
    BY <1>2, <1>3, <1>4, Zenon DEF IInv, Typed, IdsKept
<1>6. WireSound'
    BY <1>4, <1>5, SentKept, Zenon DEF IInv, WireSound, Typed
<1>7. ChannelsSound'
    BY <1>2, <1>3, <1>5, SentKept, Zenon DEF IInv, ChannelsSound
<1>8. EntriesWait'
    BY <1>2, <1>3, <1>4 DEF IInv, Typed, EntriesWait
<1> QED
    BY <1>5, <1>6, <1>7, <1>8, Zenon DEF IInv

\* GiveUp: the entry under the call's id goes, and with it the sender of
\* whichever call it belonged to by then.
LEMMA GiveUpSound ==
    ASSUME IInv, NEW c \in Calls, calls[c] \in Registered, GiveUp(c)
    PROVE  IInv'
<1>1. PICK i \in MsgIds : i = calls[c].id
    BY Zenon DEF Registered
<1> DEFINE D == DropSender(i)
           y == [D[c] EXCEPT !.pc = "done", !.verdict = FailureVerdict(calls[c].op)]
<1>2. /\ D \in [Calls -> {Idle} \cup Refused \cup Registered]
      /\ \A d \in Calls : d # pending[i] => D[d] = calls[d]
      /\ pending[i] # NoCall => /\ pending[i] \in Calls /\ D[pending[i]] \in Registered
                                /\ D[pending[i]].id = i /\ D[pending[i]].rx = Closed
                                /\ D[pending[i]].pc = calls[pending[i]].pc
    BY <1>1, SenderDropped, Zenon
<1>3. D[c] \in Registered /\ D[c].id = i /\ D[c].rx \in {calls[c].rx, Closed}
  <2>1. CASE c = pending[i]
      BY <1>2, <2>1, RpcConstants, Zenon
  <2>2. CASE c # pending[i]
      BY <1>1, <1>2, <2>2, Zenon
  <2> QED
      BY <2>1, <2>2, Zenon
<1>4. FailureVerdict(calls[c].op) \in {"none", "removed"}
    BY Zenon DEF FailureVerdict
<1> HIDE DEF D
<1>5. y \in Registered /\ y.id = i /\ y.pc = "done" /\ y.rx = D[c].rx
    BY <1>3, <1>4, Zenon DEF Registered
<1>6. /\ calls' = [D EXCEPT ![c] = y] /\ pending' = [pending EXCEPT ![i] = NoCall]
      /\ UNCHANGED <<nextMsgId, wire>>
    BY <1>1, <1>2, Zenon DEF GiveUp, D
<1> HIDE DEF y
<1>7. /\ calls' \in [Calls -> {Idle} \cup Refused \cup Registered]
      /\ calls'[c] = y /\ \A d \in Calls \ {c} : calls'[d] = D[d]
    BY <1>2, <1>5, <1>6, Zenon
<1>8. pending' \in [MsgIds -> Calls \cup {NoCall}] /\ pending'[i] = NoCall
      /\ \A j \in MsgIds \ {i} : pending'[j] = pending[j]
    BY <1>1, <1>6, Zenon DEF IInv, Typed
<1>9. Typed'
    BY <1>6, <1>7, <1>8, Zenon DEF IInv, Typed
<1>10. pending[i] # NoCall => calls[pending[i]] \in Registered /\ calls[pending[i]].id = i
    BY <1>1, Zenon DEF IInv, EntriesWait
<1>11. IdsKept
  <2> SUFFICES ASSUME NEW d \in Calls, calls[d] \in Registered
               PROVE  calls'[d] \in Registered /\ calls'[d].id = calls[d].id
      BY Zenon DEF IdsKept
  <2>1. CASE d = c
      BY <1>1, <1>5, <1>7, <2>1, Zenon
  <2>2. CASE d # c /\ d = pending[i]
      BY <1>2, <1>7, <1>10, <2>2, RpcConstants, Zenon
  <2>3. CASE d # c /\ d # pending[i]
      BY <1>2, <1>7, <2>3, Zenon
  <2> QED
      BY <2>1, <2>2, <2>3, Zenon
<1>12. WireSound'
    BY <1>6, <1>11, SentKept, Zenon DEF IInv, WireSound, Typed
<1>13. ChannelsSound'
  <2> SUFFICES ASSUME NEW d \in Calls, NEW m \in Messages, calls'[d] \in Registered, calls'[d].rx = m
               PROVE  Sent(m)' /\ m.id = calls'[d].id
      BY Zenon DEF ChannelsSound
  <2>1. calls[d] \in Registered /\ calls[d].rx = m /\ calls'[d].id = calls[d].id
    <3>1. CASE d = c
        BY <1>1, <1>3, <1>5, <1>7, <3>1, States, Zenon
    <3>2. CASE d # c
      <4>1. d # pending[i]
          BY <1>2, <1>7, <3>2, States, RpcConstants
      <4> QED
          BY <1>2, <1>7, <3>2, <4>1, Zenon
    <3> QED
        BY <3>1, <3>2, Zenon
  <2> QED
      BY <1>11, <2>1, SentKept, Zenon DEF IInv, ChannelsSound
<1>14. EntriesWait'
  <2>1. ASSUME NEW j \in MsgIds, pending'[j] # NoCall
        PROVE  /\ calls'[pending'[j]] \in Registered /\ calls'[pending'[j]].id = j
               /\ calls'[pending'[j]].pc # "done" /\ calls'[pending'[j]].rx = Empty
    <3>1. j # i
        BY <1>8, <2>1, Zenon
    <3>2. PICK d \in Calls : d = pending[j] /\ pending'[j] = d
        BY <1>8, <2>1, <3>1, Zenon DEF IInv, Typed
    <3>3. /\ calls[d] \in Registered /\ calls[d].id = j /\ calls[d].pc # "done" /\ calls[d].rx = Empty
        BY <1>8, <2>1, <3>1, <3>2 DEF IInv, EntriesWait
    <3>4. d # c /\ d # pending[i]
        BY <1>1, <1>10, <3>1, <3>3, RpcConstants, Zenon
    <3> QED
        BY <1>2, <1>7, <3>2, <3>3, <3>4
  <2>2. ASSUME NEW d \in Calls, calls'[d] \in Registered, calls'[d].pc \in {"send", "wait"}, calls'[d].rx = Empty
        PROVE  pending'[calls'[d].id] = d
    <3>1. d # c
        BY <1>5, <1>7, <2>2, Zenon
    <3>2. d # pending[i]
        BY <1>2, <1>7, <2>2, <3>1, RpcConstants DEF Empty, Closed
    <3>3. calls'[d] = calls[d]
        BY <1>2, <1>7, <3>1, <3>2, Zenon
    <3>4. pending[calls[d].id] = d /\ calls[d].id \in MsgIds
        BY <2>2, <3>3, Zenon DEF IInv, EntriesWait, Registered
    <3> QED
        BY <1>8, <3>2, <3>3, <3>4, Zenon
  <2> QED
      BY <2>1, <2>2, Zenon DEF EntriesWait
<1> QED
    BY <1>9, <1>12, <1>13, <1>14, Zenon DEF IInv

\* HandleResponse: the entry under the response's id leaves the map, and its
\* call, whichever it is, gets the response.
LEMMA HandleResponseSound ==
    ASSUME IInv, NEW m \in wire, HandleResponse(m)
    PROVE  IInv'
<1>1. m \in Messages /\ Sent(m) /\ m.id \in MsgIds
    BY Zenon DEF IInv, Typed, WireSound, Messages
<1>2. wire' \subseteq wire /\ nextMsgId' = nextMsgId /\ pending' = [pending EXCEPT ![m.id] = NoCall]
    BY Zenon DEF HandleResponse, HandOver
<1>3. /\ pending' \in [MsgIds -> Calls \cup {NoCall}] /\ pending'[m.id] = NoCall
      /\ \A j \in MsgIds \ {m.id} : pending'[j] = pending[j]
    BY <1>1, <1>2, Zenon DEF IInv, Typed
<1>4. CASE pending[m.id] = NoCall
  <2>1. calls' = calls
      BY <1>4, Zenon DEF HandleResponse, HandOver
  <2>2. pending' = pending
      BY <1>1, <1>2, <1>4, Zenon DEF IInv, Typed
  <2> QED
      BY <1>2, <2>1, <2>2, WireStepSound, Zenon DEF IInv, Typed, WireSound
<1>5. CASE pending[m.id] # NoCall
  <2>1. PICK c \in Calls : c = pending[m.id]
      BY <1>1, <1>5, Zenon DEF IInv, Typed
  <2>2. calls[c] \in Registered /\ calls[c].id = m.id
      BY <1>1, <1>5, <2>1, Zenon DEF IInv, EntriesWait
  <2> DEFINE y == [calls[c] EXCEPT !.rx = m]
  <2>3. y \in Registered /\ y.id = m.id /\ y.rx = m /\ y.pc = calls[c].pc
      BY <1>1, <2>2, Zenon DEF Registered
  <2>4. calls' = [calls EXCEPT ![c] = y]
      BY <1>5, <2>1, <2>2, Zenon DEF HandleResponse, HandOver, IInv, Typed
  <2> HIDE DEF y
  <2>5. /\ calls' \in [Calls -> {Idle} \cup Refused \cup Registered]
        /\ calls'[c] = y /\ \A d \in Calls \ {c} : calls'[d] = calls[d]
      BY <2>3, <2>4, Zenon DEF IInv, Typed
  <2>6. Typed' /\ IdsKept
      BY <1>2, <1>3, <2>2, <2>3, <2>5, Zenon DEF IInv, Typed, IdsKept
  <2>7. WireSound'
      BY <1>2, <2>6, SentKept, Zenon DEF IInv, WireSound, Typed
  <2>8. ChannelsSound'
    <3> SUFFICES ASSUME NEW d \in Calls, NEW mm \in Messages, calls'[d] \in Registered, calls'[d].rx = mm
                 PROVE  Sent(mm)' /\ mm.id = calls'[d].id
        BY Zenon DEF ChannelsSound
    <3>1. CASE d = c
        BY <1>1, <2>3, <2>5, <2>6, <3>1, SentKept, Zenon
    <3>2. CASE d # c
        BY <2>5, <2>6, <3>2, SentKept, Zenon DEF IInv, ChannelsSound
    <3> QED
        BY <3>1, <3>2, Zenon
  <2>9. EntriesWait'
    <3>1. ASSUME NEW j \in MsgIds, pending'[j] # NoCall
          PROVE  /\ calls'[pending'[j]] \in Registered /\ calls'[pending'[j]].id = j
                 /\ calls'[pending'[j]].pc # "done" /\ calls'[pending'[j]].rx = Empty
      <4>1. j # m.id /\ pending'[j] = pending[j] /\ pending[j] \in Calls
          BY <1>3, <3>1, Zenon DEF IInv, Typed
      <4>2. /\ calls[pending[j]] \in Registered /\ calls[pending[j]].id = j
            /\ calls[pending[j]].pc # "done" /\ calls[pending[j]].rx = Empty
          BY <3>1, <4>1, Zenon DEF IInv, EntriesWait
      <4>3. pending[j] # c
          BY <2>2, <4>1, <4>2, Zenon
      <4> QED
          BY <2>5, <4>1, <4>2, <4>3, Zenon
    <3>2. ASSUME NEW d \in Calls, calls'[d] \in Registered, calls'[d].pc \in {"send", "wait"}, calls'[d].rx = Empty
          PROVE  pending'[calls'[d].id] = d
      <4>1. d # c
          BY <1>1, <2>3, <2>5, <3>2, States, Zenon
      <4>2. calls'[d] = calls[d]
          BY <2>5, <4>1, Zenon
      <4>3. pending[calls[d].id] = d /\ calls[d].id \in MsgIds
          BY <3>2, <4>2, Zenon DEF IInv, EntriesWait, Registered
      <4> QED
          BY <1>3, <2>1, <4>1, <4>2, <4>3, Zenon
    <3> QED
        BY <3>1, <3>2, Zenon DEF EntriesWait
  <2> QED
      BY <2>6, <2>7, <2>8, <2>9, Zenon DEF IInv
<1> QED
    BY <1>4, <1>5, Zenon

\* A call sends its request, stops waiting, returns or is dropped.
LEMMA SendSound ==
    ASSUME IInv, NEW c \in Calls, Send(c)
    PROVE  IInv'
<1>1. calls[c] \in Registered
    BY Active, Zenon DEF Send, IInv
<1> DEFINE y == [calls[c] EXCEPT !.pc = "wait"]
<1>2. y \in Registered /\ y.id = calls[c].id /\ y.rx = calls[c].rx /\ y.pc = "wait"
    BY <1>1, Zenon DEF Registered
<1>3. Message("request", c) \in Messages /\ Sent(Message("request", c))
    BY <1>1, Zenon DEF Message, Messages, Registered, Sent
<1>4. /\ calls' = [calls EXCEPT ![c] = y] /\ calls[c].pc = "send" /\ UNCHANGED <<nextMsgId, pending>>
      /\ wire' = wire \cup {Message("request", c)}
    BY Zenon DEF Send
<1> HIDE DEF y
<1> QED
    BY <1>1, <1>2, <1>3, <1>4, MoveSound, Zenon DEF IInv, Typed

\* A call stops waiting when its timeout is over.
LEMMA StopWaitingSound ==
    ASSUME IInv, NEW c \in Calls, StopWaiting(c)
    PROVE  IInv'
<1>1. calls[c] \in Registered
    BY Active, Zenon DEF StopWaiting, IInv
<1> DEFINE y == [calls[c] EXCEPT !.pc = "expired"]
<1>2. y \in Registered /\ y.id = calls[c].id /\ y.rx = calls[c].rx /\ y.pc = "expired"
    BY <1>1, Zenon DEF Registered
<1>3. calls' = [calls EXCEPT ![c] = y] /\ UNCHANGED <<nextMsgId, pending, wire>>
    BY Zenon DEF StopWaiting
<1> HIDE DEF y
<1> QED
    BY <1>1, <1>2, <1>3, MoveSound, Zenon DEF IInv, Typed

\* A call is cancelled while it waits.
LEMMA CancelSound ==
    ASSUME IInv, NEW c \in Calls, Cancel(c)
    PROVE  IInv'
<1>1. calls[c] \in Registered
    BY Active, Zenon DEF Cancel, IInv
<1> DEFINE y == [calls[c] EXCEPT !.pc = "cancelled"]
<1>2. y \in Registered /\ y.id = calls[c].id /\ y.rx = calls[c].rx /\ y.pc = "cancelled"
    BY <1>1, Zenon DEF Registered
<1>3. calls' = [calls EXCEPT ![c] = y] /\ UNCHANGED <<nextMsgId, pending, wire>>
    BY Zenon DEF Cancel
<1> HIDE DEF y
<1> QED
    BY <1>1, <1>2, <1>3, MoveSound, Zenon DEF IInv, Typed

\* A call returns what it got.
LEMMA ReturnSound ==
    ASSUME IInv, NEW c \in Calls, Return(c)
    PROVE  IInv'
<1>1. calls[c] \in Registered
    BY Active, Zenon DEF Return, IInv
<1> DEFINE v == IF calls[c].rx.op = calls[c].op THEN "answered" ELSE FailureVerdict(calls[c].op)
           y == [calls[c] EXCEPT !.pc = "done", !.verdict = v]
<1>2. v \in {"none", "removed", "answered"}
    BY Zenon DEF FailureVerdict
<1>3. calls' = [calls EXCEPT ![c] = y] /\ UNCHANGED <<nextMsgId, pending, wire>>
    BY Zenon DEF Return
<1> HIDE DEF v
<1>4. y \in Registered /\ y.id = calls[c].id /\ y.rx = calls[c].rx /\ y.pc = "done"
    BY <1>1, <1>2, Zenon DEF Registered
<1>5. calls[c].rx # Empty
    BY DEF Return, Empty
<1> HIDE DEF y
<1> QED
    BY <1>1, <1>3, <1>4, <1>5, MoveSound, Zenon DEF IInv, Typed

\* A peer answers under the id it was asked under.
LEMMA PeerAnswersSound ==
    ASSUME IInv, NEW m \in wire, PeerAnswers(m)
    PROVE  IInv'
<1> DEFINE a == [m EXCEPT !.kind = "response"]
<1>1. m \in Messages /\ Sent(m)
    BY Zenon DEF IInv, Typed, WireSound
<1>2. a \in Messages /\ Sent(a)
    BY <1>1, Zenon DEF Messages, Sent
<1>3. wire' \subseteq wire \cup {a} /\ UNCHANGED <<nextMsgId, pending, calls>>
    BY Zenon DEF PeerAnswers
<1> HIDE DEF a
<1> QED
    BY <1>2, <1>3, WireStepSound, Zenon DEF IInv, Typed, WireSound

\* A restart ends every call that had begun and empties the pending map; what
\* was sent before keeps the id it was sent under.
LEMMA RestartSound ==
    ASSUME IInv, Restart
    PROVE  IInv'
<1>1. /\ nextMsgId' = 0 /\ pending' = [i \in MsgIds |-> NoCall] /\ wire' = wire
      /\ calls' = [c \in Calls |-> IF calls[c].pc = "idle" THEN Idle ELSE [calls[c] EXCEPT !.pc = "done"]]
    BY Zenon DEF Restart
<1>2. ASSUME NEW c \in Calls, calls[c] \in Registered
      PROVE  /\ calls'[c] \in Registered /\ calls'[c].id = calls[c].id
             /\ calls'[c].rx = calls[c].rx /\ calls'[c].pc = "done"
  <2>1. calls[c].pc # "idle"
      BY <1>2, States, Zenon
  <2>2. calls'[c] = [calls[c] EXCEPT !.pc = "done"]
      BY <1>1, <2>1, Zenon
  <2> QED
      BY <1>2, <2>2, Zenon DEF Registered
<1>3. ASSUME NEW c \in Calls, calls[c] \notin Registered
      PROVE  calls'[c] = calls[c]
  <2>1. CASE calls[c] = Idle
      BY <1>1, <2>1, States, Zenon
  <2>2. CASE calls[c] \in Refused
    <3>1. calls'[c] = [calls[c] EXCEPT !.pc = "done"] /\ calls[c].pc = "done"
        BY <1>1, <2>2, States, Zenon
    <3> QED
        BY <2>2, <3>1, Zenon DEF Refused
  <2> QED
      BY <1>3, <2>1, <2>2, Zenon DEF IInv, Typed
<1>4. calls' \in [Calls -> {Idle} \cup Refused \cup Registered]
  <2>1. calls' \in [Calls -> {calls'[c] : c \in Calls}]
      BY <1>1, Zenon
  <2>2. \A c \in Calls : calls'[c] \in {Idle} \cup Refused \cup Registered
      BY <1>2, <1>3, Zenon DEF IInv, Typed
  <2> QED
      BY <2>1, <2>2, Zenon
<1>5. Typed'
    BY <1>1, <1>4, RpcConstants DEF IInv, Typed, MsgIds
<1>6. IdsKept
    BY <1>2, Zenon DEF IdsKept
<1>7. WireSound'
    BY <1>1, <1>6, SentKept, Zenon DEF IInv, WireSound, Typed
<1>8. ChannelsSound'
    BY <1>2, <1>3, <1>6, SentKept, Zenon DEF IInv, ChannelsSound
<1>9. EntriesWait'
    BY <1>1, <1>2, <1>3, Zenon DEF EntriesWait
<1> QED
    BY <1>5, <1>7, <1>8, <1>9, Zenon DEF IInv

-----------------------------------------------------------------------------
(* The theorems *)

\* The invariant holds in every reachable state of the calls.
LEMMA Invariance == Safety => []IInv
<1>1. ASSUME IInv, [Next]_vars PROVE IInv'
  <2>1. ASSUME NEW c \in Calls, Begin(c) PROVE IInv'
    <3>1. \A op \in Ops[c] : op \in CallOps
      BY Zenon DEF CallOps
    <3> QED
      BY <1>1, <2>1, <3>1, RegisterSound, NoAddressSound, Zenon DEF Begin
  <2>2. ASSUME NEW c \in Calls, Proceed(c) PROVE IInv'
    <3>1. CASE SendFails(c) \/ RemoveExpired(c)
      <4>1. calls[c] \in Registered /\ GiveUp(c)
          BY <1>1, <3>1, Active, Zenon DEF SendFails, RemoveExpired, IInv
      <4> QED
          BY <1>1, <4>1, GiveUpSound, Zenon
    <3> QED
        BY <1>1, <2>2, <3>1, SendSound, StopWaitingSound, ReturnSound, Zenon DEF Proceed
  <2>3. ASSUME NEW c \in Calls, Cancel(c) PROVE IInv'
      BY <1>1, <2>3, CancelSound, Zenon
  <2>4. CASE Network
      BY <1>1, <2>4, PeerAnswersSound, HandleResponseSound, Zenon DEF Network
  <2>5. CASE Restart
      BY <1>1, <2>5, RestartSound, Zenon
  <2>6. CASE UNCHANGED vars
    <3>1. UNCHANGED <<nextMsgId, pending, calls, wire>>
        BY <2>6, Zenon DEF vars
    <3> QED
        BY <1>1, <3>1, WireStepSound, Zenon DEF IInv, Typed, WireSound
  <2> QED
      BY <1>1, <2>1, <2>2, <2>3, <2>4, <2>5, <2>6, Zenon DEF Next
<1> QED
    BY <1>1, InitSound, PTL DEF Safety

\* As long as no two calls share an id, whatever response call hands its
\* caller is the one to its own request: however late, repeated or reordered
\* the datagrams are, across restarts, and for any size of the id space.
THEOREM CallsGetTheirOwnAnswers == Safety => []AnswersMatch
<1>1. IInv => AnswersMatch
  <2> SUFFICES ASSUME IInv, MsgIdsUnique, NEW c \in Calls, HasId(c), calls[c].rx.kind = "response"
               PROVE  calls[c].rx.of = c
      BY Zenon DEF AnswersMatch
  <2>1. calls[c] \in Registered
      BY HasIdMeans, Zenon DEF IInv
  <2>2. calls[c].rx \in Messages
      BY <2>1 DEF Registered, Empty, Closed
  <2>3. PICK m \in Messages : m = calls[c].rx
      BY <2>2, Zenon
  <2>4. Sent(m) /\ m.id = calls[c].id /\ m.of \in Calls
      BY <2>1, <2>3, Zenon DEF IInv, ChannelsSound, Messages
  <2>5. HasId(m.of) /\ calls[m.of].id = calls[c].id
      BY <2>4, HasIdMeans, Zenon DEF IInv, Sent
  <2>6. m.of = c
      BY <2>4, <2>5, Zenon DEF MsgIdsUnique
  <2> QED
      BY <2>3, <2>6, Zenon
<1> QED
    BY <1>1, Invariance, PTL

\* The pending map of call holds no entry of a call that returned, and every
\* call that still can be answered, under its own id: through timeouts, late
\* answers, cancelled calls, restarts and ids that wrap and collide.
THEOREM PendingMapIsExact == Safety => []PendingExact
<1>1. IInv => PendingExact
  <2> SUFFICES ASSUME IInv PROVE PendingExact
      BY Zenon
  <2>1. ASSUME NEW i \in MsgIds, pending[i] # NoCall
        PROVE  (Started(pending[i]) \/ calls[pending[i]].pc = "cancelled") /\ calls[pending[i]].id = i
      BY <2>1, Zenon DEF IInv, EntriesWait, Started, Registered
  <2>2. ASSUME NEW c \in Calls, calls[c].pc \in {"send", "wait"}, calls[c].rx = Empty
        PROVE  pending[calls[c].id] = c
      BY <2>2, Active, Zenon DEF IInv, EntriesWait
  <2> QED
      BY <2>1, <2>2, Zenon DEF PendingExact
<1> QED
    BY <1>1, Invariance, PTL

-----------------------------------------------------------------------------
(* The closest nodes of a set *)

\* A set of nodes is finite.
LEMMA FiniteNodes ==
    ASSUME NEW S \in SUBSET Nodes
    PROVE  IsFiniteSet(S) /\ Cardinality(S) \in Nat
    BY LookupConstants, FS_Subset, FS_CardinalityType, Zenon

\* A node of S that is among the n closest of a larger set is among the n
\* closest of S.
LEMMA ClosestOfFewer ==
    ASSUME NEW T \in SUBSET Nodes, NEW S \in SUBSET T, NEW n \in Nat,
           NEW x \in Closest(T, n), x \in S
    PROVE  x \in Closest(S, n)
<1> DEFINE inS == {y \in S : y < x}
           inT == {y \in T : y < x}
<1>1. inS \in SUBSET inT /\ inS \in SUBSET Nodes /\ inT \in SUBSET Nodes
    BY Zenon
<1>2. Cardinality(inT) < n
    BY Zenon DEF Closest
<1> HIDE DEF inS, inT
<1>3. Cardinality(inS) <= Cardinality(inT) /\ Cardinality(inS) \in Nat /\ Cardinality(inT) \in Nat
    BY <1>1, FiniteNodes, FS_Subset, Zenon
<1>4. Cardinality(inS) < n
    BY <1>2, <1>3
<1> QED
    BY <1>4, Zenon DEF Closest, inS

\* The first of two nodes, or of one, is the one node closest to the target.
LEMMA ClosestOne ==
    ASSUME NEW S \in SUBSET Nodes, NEW x \in S, \A y \in S : x <= y
    PROVE  Closest(S, 1) = {x}
<1>1. S \subseteq Nat
    BY LookupConstants, Zenon
<1>2. {y \in S : y < x} = {}
  <2>1. \A y \in S : ~(y < x)
      BY <1>1
  <2> QED
      BY <2>1, Zenon
<1>3. x \in Closest(S, 1)
    BY <1>2, FS_EmptySet DEF Closest
<1>4. ASSUME NEW z \in S, z # x PROVE z \notin Closest(S, 1)
  <2> DEFINE below == {y \in S : y < z}
  <2>1. x \in below
      BY <1>1, <1>4
  <2>2. below \in SUBSET Nodes
      BY Zenon
  <2> HIDE DEF below
  <2>3. Cardinality(below) # 0 /\ Cardinality(below) \in Nat
      BY <2>1, <2>2, FiniteNodes, FS_EmptySet, Zenon
  <2>4. ~(Cardinality(below) < 1)
      BY <2>3
  <2> QED
      BY <2>4, Zenon DEF Closest, below
<1> QED
    BY <1>3, <1>4, Zenon DEF Closest

-----------------------------------------------------------------------------
(* The inductive invariant *)

LookupTyped ==
    /\ mode \in Modes /\ phase \in {"round", "collect", "done"}
    /\ nearest \in SUBSET Nodes /\ contacted \in SUBSET Nodes
    /\ responses \in SUBSET contacted /\ toRemove \in SUBSET history.failed
    /\ found \in [Values -> Nat]
    /\ without \in SUBSET Nodes
    /\ result \in [nodes : SUBSET Nodes, value : Values \cup {NoValue}, cachedAt : SUBSET Nodes]
    /\ history \in [learned : SUBSET Nodes, failed : SUBSET Nodes, empty : SUBSET Nodes]

\* The heap holds every one of the K closest nodes learned so far that has not
\* failed; it drops others, but never one of these.
HeapComplete ==
    /\ nearest \subseteq history.learned
    /\ Closest(history.learned, K) \ history.failed \subseteq nearest

\* The nodes a round asks are in the heap until the first node list of the
\* lookup is applied, so that the first node that answers without the value is
\* noticed; of those that answered without it one is kept.
WithoutSound ==
    /\ history.empty = {} => responses \subseteq nearest
    /\ without \subseteq history.empty
    /\ without = {} \/ \E x \in Nodes : without = {x}
    /\ mode = "value" /\ without = {} => history.empty = {}
    /\ Hits # {} => mode = "value"

ResultSound ==
    phase = "done" =>
        \/ /\ Hits = {} /\ result.value = NoValue
           /\ result.nodes = nearest /\ nearest \subseteq contacted
        \/ /\ result.value \in Hits /\ \A v \in Hits : found[v] <= found[result.value]
           /\ result.cachedAt = without

LookupIInv == LookupTyped /\ HeapComplete /\ WithoutSound /\ ResultSound

\* Trimming never drops one of the K closest nodes.
LEMMA PushComplete ==
    ASSUME NEW L \in SUBSET Nodes, NEW heap \in SUBSET L, NEW F, Closest(L, K) \ F \subseteq heap,
           NEW S \in SUBSET Nodes
    PROVE  /\ Push(heap, S) \subseteq L \cup S
           /\ Closest(L \cup S, K) \ F \subseteq Push(heap, S)
<1>1. Push(heap, S) \subseteq L \cup S
    BY Zenon DEF Push, Trim, Closest
<1>2. ASSUME NEW x \in Closest(L \cup S, K), x \notin F PROVE x \in Push(heap, S)
  <2>1. x \in L \cup S /\ K \in Nat
      BY LookupConstants, Zenon DEF Closest
  <2>2. x \in heap \cup S
    <3>1. CASE x \in L
        BY <1>2, <2>1, <3>1, ClosestOfFewer, Zenon
    <3> QED
        BY <2>1, <3>1, Zenon
  <2>3. x \in Closest(heap \cup S, K)
      BY <2>1, <2>2, ClosestOfFewer, Zenon
  <2> QED
      BY <2>3, Zenon DEF Push, Trim
<1> QED
    BY <1>1, <1>2, Zenon

\* A lookup starts from its seeds.
LEMMA LookupInitSound == LookupInit => LookupIInv
<1> SUFFICES ASSUME LookupInit PROVE LookupIInv
    BY Zenon
<1>1. PICK S \in Seeds : nearest = Push({}, S) /\ history = [learned |-> S, failed |-> {}, empty |-> {}]
    BY Zenon DEF LookupInit
<1>2. S \in SUBSET Nodes
    BY LookupConstants, Zenon
<1>3. Closest({}, K) \ {} \subseteq {}
    BY Zenon DEF Closest
<1>4. nearest \subseteq S /\ Closest(S, K) \ {} \subseteq nearest
  <2>1. Push({}, S) \subseteq {} \cup S /\ Closest({} \cup S, K) \ {} \subseteq Push({}, S)
      BY <1>2, <1>3, PushComplete, Zenon
  <2>2. {} \cup S = S
      BY Zenon
  <2> QED
      BY <1>1, <2>1, <2>2, Zenon
<1>5. LookupTyped
    BY <1>1, <1>2, <1>4, Zenon DEF LookupInit, LookupTyped, NoResult
<1>6. HeapComplete
    BY <1>1, <1>4, Zenon DEF HeapComplete
<1>7. Hits = {}
    BY DEF LookupInit, Hits
<1> QED
    BY <1>1, <1>5, <1>6, <1>7, Zenon DEF LookupInit, LookupIInv, WithoutSound, ResultSound

-----------------------------------------------------------------------------
(* Steps *)

\* A round chooses whom to ask.
LEMMA FindRoundSound == LookupIInv /\ FindRound => LookupIInv'
<1> SUFFICES ASSUME LookupIInv, FindRound PROVE LookupIInv'
    BY Zenon
<1>1. responses' \subseteq nearest /\ contacted' = contacted \cup responses'
    BY Zenon DEF FindRound, Closest
<1>2. phase' = "collect" /\ UNCHANGED <<mode, nearest, toRemove, found, without, result, history>>
    BY Zenon DEF FindRound
<1>3. LookupTyped'
    BY <1>1, <1>2, Zenon DEF LookupIInv, LookupTyped
<1>4. HeapComplete' /\ ResultSound'
    BY <1>2, Zenon DEF LookupIInv, HeapComplete, ResultSound, Closest
<1>5. WithoutSound'
    BY <1>1, <1>2, Zenon DEF LookupIInv, WithoutSound, Hits
<1> QED
    BY <1>3, <1>4, <1>5, Zenon DEF LookupIInv

\* A peer does not answer, and is removed at the end of the round.
LEMMA NoAnswerSound ==
    ASSUME LookupIInv, NEW p \in responses, NoAnswer(p)
    PROVE  LookupIInv'
<1>1. /\ phase = "collect" /\ responses' = responses \ {p} /\ toRemove' = toRemove \cup {p}
      /\ UNCHANGED <<mode, phase, result, nearest, contacted, found, without>>
    BY Zenon DEF NoAnswer, Apply
<1>2. /\ history' \in [learned : SUBSET Nodes, failed : SUBSET Nodes, empty : SUBSET Nodes]
      /\ history'.learned = history.learned /\ history'.empty = history.empty
      /\ history'.failed = history.failed \cup {p}
    BY Zenon DEF NoAnswer, LookupIInv, LookupTyped
<1>3. LookupTyped'
    BY <1>1, <1>2, Zenon DEF LookupIInv, LookupTyped
<1>4. HeapComplete'
    BY <1>1, <1>2, Zenon DEF LookupIInv, HeapComplete
<1>5. WithoutSound' /\ ResultSound'
    BY <1>1, <1>2, Zenon DEF LookupIInv, WithoutSound, ResultSound, Hits
<1> QED
    BY <1>3, <1>4, <1>5, Zenon DEF LookupIInv

\* What NearestWithout keeps: one node at most, among those that answered
\* without the value, and one as soon as a node of the heap did.
LEMMA NearestWithoutIs ==
    ASSUME LookupIInv, NEW p \in Nodes
    PROVE  /\ NearestWithout(p) \subseteq without \cup {p}
           /\ NearestWithout(p) = {} \/ \E x \in Nodes : NearestWithout(p) = {x}
           /\ mode = "value" /\ (without # {} \/ p \in nearest) => NearestWithout(p) # {}
<1>1. CASE mode = "value" /\ p \in nearest
  <2>1. PICK x \in without \cup {p} : \A y \in without \cup {p} : x <= y
    <3>1. CASE without = {}
        BY <3>1, LookupConstants
    <3>2. ASSUME NEW z \in Nodes, without = {z}
          PROVE  \E x \in without \cup {p} : \A y \in without \cup {p} : x <= y
      <4>1. p \in Nat /\ z \in Nat
          BY LookupConstants, Zenon
      <4>2. CASE p <= z
          BY <3>2, <4>1, <4>2
      <4>3. CASE z <= p
          BY <3>2, <4>1, <4>3
      <4> QED
          BY <4>1, <4>2, <4>3
    <3> QED
        BY <3>1, <3>2, Zenon DEF LookupIInv, WithoutSound
  <2>2. without \cup {p} \in SUBSET Nodes
      BY Zenon DEF LookupIInv, LookupTyped
  <2>3. NearestWithout(p) = {x}
      BY <1>1, <2>1, <2>2, ClosestOne, Zenon DEF NearestWithout
  <2> QED
      BY <2>1, <2>2, <2>3, Zenon
<1>2. CASE ~(mode = "value" /\ p \in nearest)
    BY <1>2, Zenon DEF NearestWithout, LookupIInv, WithoutSound
<1> QED
    BY <1>1, <1>2, Zenon

\* A peer answers with nodes, which enter the heap.
LEMMA NodeListSound ==
    ASSUME LookupIInv, NEW p \in responses, NEW S \in SUBSET Nodes, NodeList(p, S)
    PROVE  LookupIInv'
<1>1. /\ phase = "collect" /\ responses' = responses \ {p} /\ without' = NearestWithout(p)
      /\ nearest' = Push(nearest, S)
      /\ UNCHANGED <<mode, phase, result, contacted, toRemove, found>>
    BY Zenon DEF NodeList, Apply
<1>2. p \in Nodes
    BY Zenon DEF LookupIInv, LookupTyped
<1>3. /\ history' \in [learned : SUBSET Nodes, failed : SUBSET Nodes, empty : SUBSET Nodes]
      /\ history'.learned = history.learned \cup S /\ history'.empty = history.empty \cup {p}
      /\ history'.failed = history.failed
    BY <1>2, Zenon DEF NodeList, LookupIInv, LookupTyped
<1>4. HeapComplete'
  <2>1. history.learned \in SUBSET Nodes /\ nearest \in SUBSET history.learned
        /\ Closest(history.learned, K) \ history.failed \subseteq nearest
      BY Zenon DEF LookupIInv, LookupTyped, HeapComplete
  <2>2. /\ Push(nearest, S) \subseteq history.learned \cup S
        /\ Closest(history.learned \cup S, K) \ history.failed \subseteq Push(nearest, S)
      BY <2>1, PushComplete, ZenonT(40)
  <2>3. nearest' \subseteq history'.learned /\ Closest(history'.learned, K) \ history'.failed \subseteq nearest'
      BY <1>1, <1>3, <2>2, Zenon
  <2> QED
      BY <2>3, Zenon DEF HeapComplete, Closest
<1>5. /\ without' \subseteq without \cup {p}
      /\ without' = {} \/ \E x \in Nodes : without' = {x}
      /\ mode = "value" /\ (without # {} \/ p \in nearest) => without' # {}
    BY <1>1, <1>2, NearestWithoutIs, Zenon
<1>6. LookupTyped'
    BY <1>1, <1>2, <1>3, <1>4, <1>5, Zenon DEF LookupIInv, LookupTyped, HeapComplete
<1>7. WithoutSound'
  <2>1. mode = "value" => without' # {}
      BY <1>5, Zenon DEF LookupIInv, WithoutSound
  <2>2. Hits' = Hits
      BY <1>1, Zenon DEF Hits
  <2> QED
      BY <1>1, <1>3, <1>5, <2>1, <2>2, Zenon DEF LookupIInv, WithoutSound
<1>8. ResultSound'
    BY <1>1, Zenon DEF ResultSound
<1> QED
    BY <1>4, <1>6, <1>7, <1>8, Zenon DEF LookupIInv

\* A peer answers with a value.
LEMMA HasValueSound ==
    ASSUME LookupIInv, NEW p \in responses, NEW v \in Values, HasValue(p, v)
    PROVE  LookupIInv'
<1>1. /\ mode = "value" /\ phase = "collect" /\ responses' = responses \ {p}
      /\ UNCHANGED <<mode, phase, result, nearest, contacted, toRemove, without, history>>
    BY Zenon DEF HasValue, Apply
<1>2. found' \in [Values -> Nat]
    BY DEF HasValue, LookupIInv, LookupTyped
<1>3. LookupTyped'
    BY <1>1, <1>2, Zenon DEF LookupIInv, LookupTyped
<1>4. HeapComplete' /\ ResultSound'
    BY <1>1, Zenon DEF LookupIInv, HeapComplete, ResultSound, Closest
<1>5. WithoutSound'
    BY <1>1, Zenon DEF LookupIInv, WithoutSound
<1> QED
    BY <1>3, <1>4, <1>5, Zenon DEF LookupIInv

\* The end of a round, whatever comes after it: only failed nodes leave the
\* heap.
LEMMA EndRoundSound ==
    ASSUME LookupIInv, EndRound, phase' \in {"round", "done"},
           result' \in [nodes : SUBSET Nodes, value : Values \cup {NoValue}, cachedAt : SUBSET Nodes]
    PROVE  LookupTyped' /\ HeapComplete' /\ WithoutSound'
<1>1. /\ responses = {} /\ nearest' = nearest \ toRemove /\ toRemove' = {}
      /\ UNCHANGED <<mode, contacted, responses, found, without, history>>
    BY Zenon DEF EndRound, Remaining
<1>2. LookupTyped'
    BY <1>1, Zenon DEF LookupIInv, LookupTyped
<1>3. HeapComplete'
    BY <1>1, Zenon DEF LookupIInv, LookupTyped, HeapComplete, Closest
<1>4. WithoutSound'
    BY <1>1, Zenon DEF LookupIInv, WithoutSound, Hits
<1> QED
    BY <1>2, <1>3, <1>4, Zenon

\* The lookup returns a value.
LEMMA ReturnValueSound == LookupIInv /\ ReturnValue => LookupIInv'
<1> SUFFICES ASSUME LookupIInv, ReturnValue PROVE LookupIInv'
    BY Zenon
<1>1. PICK v \in Hits : /\ \A w \in Hits : found[w] <= found[v]
                        /\ result' = [nodes |-> {}, value |-> v, cachedAt |-> without]
    BY Zenon DEF ReturnValue
<1>2. EndRound /\ phase' = "done" /\ v \in Values
    BY Zenon DEF ReturnValue, Hits
<1>3. LookupTyped' /\ HeapComplete' /\ WithoutSound'
    BY <1>1, <1>2, EndRoundSound, Zenon DEF LookupIInv, LookupTyped
<1>4. Hits' = Hits /\ found' = found /\ without' = without
    BY <1>2, Zenon DEF EndRound, Hits
<1>5. ResultSound'
    BY <1>1, <1>4, Zenon DEF ResultSound
<1> QED
    BY <1>3, <1>5, Zenon DEF LookupIInv

\* The lookup returns nodes.
LEMMA ReturnNodesSound == LookupIInv /\ ReturnNodes => LookupIInv'
<1> SUFFICES ASSUME LookupIInv, ReturnNodes PROVE LookupIInv'
    BY Zenon
<1>1. /\ EndRound /\ phase' = "done" /\ Hits = {} /\ Remaining \subseteq contacted
      /\ result' = [nodes |-> Remaining, value |-> NoValue, cachedAt |-> {}]
    BY Zenon DEF ReturnNodes, HaveContactedAll, NoResult
<1>2. LookupTyped' /\ HeapComplete' /\ WithoutSound'
    BY <1>1, EndRoundSound, Zenon DEF LookupIInv, LookupTyped, Remaining
<1>3. Hits' = Hits /\ contacted' = contacted /\ nearest' = Remaining
    BY <1>1, Zenon DEF EndRound, Hits
<1>4. ResultSound'
    BY <1>1, <1>3, Zenon DEF ResultSound
<1> QED
    BY <1>2, <1>4, Zenon DEF LookupIInv

\* Another round follows.
LEMMA NextRoundSound == LookupIInv /\ NextRound => LookupIInv'
<1> SUFFICES ASSUME LookupIInv, NextRound PROVE LookupIInv'
    BY Zenon
<1>1. EndRound /\ phase' = "round" /\ result' = result
    BY Zenon DEF NextRound
<1>2. LookupTyped' /\ HeapComplete' /\ WithoutSound'
    BY <1>1, EndRoundSound, Zenon DEF LookupIInv, LookupTyped
<1> QED
    BY <1>1, <1>2, Zenon DEF LookupIInv, ResultSound

-----------------------------------------------------------------------------
(* The theorems *)

\* The invariant holds in every reachable state of a lookup.
LEMMA LookupInvariance == LookupSafety => []LookupIInv
<1>1. ASSUME LookupIInv, [LookupNext]_lookupVars PROVE LookupIInv'
  <2>1. CASE Answers
      BY <1>1, <2>1, NoAnswerSound, NodeListSound, HasValueSound, Zenon DEF Answers, NodeLists
  <2>2. CASE UNCHANGED lookupVars
    <3>1. UNCHANGED <<mode, phase, nearest, contacted, responses, toRemove, found, without, result, history>>
        BY <2>2, Zenon DEF lookupVars
    <3> QED
        BY <1>1, <3>1, Zenon DEF LookupIInv, LookupTyped, HeapComplete, WithoutSound, ResultSound, Hits, Closest
  <2> QED
      BY <1>1, <2>1, <2>2, FindRoundSound, ReturnValueSound, ReturnNodesSound, NextRoundSound, Zenon DEF LookupNext
<1> QED
    BY <1>1, LookupInitSound, PTL DEF LookupSafety

\* NodeSpiderCrawl::find returns every one of the ksize closest nodes it learned
\* of that never failed it, all of them asked, however failures, trims and
\* answers mix, in a network of any size and with any ksize and alpha.
THEOREM LookupsAreComplete == LookupSafety => []ResultComplete
<1>1. LookupIInv => ResultComplete
    BY LookupConstants, Zenon DEF LookupIInv, HeapComplete, ResultSound, ResultComplete, Hits
<1> QED
    BY <1>1, LookupInvariance, PTL

\* ValueSpiderCrawl::find returns a value that no other outnumbers once any peer
\* gave one, and offers it to a node that answered without it if one did.
THEOREM HitsAreReturned == LookupSafety => []HitIsReturned
<1>1. LookupIInv => HitIsReturned
    BY Zenon DEF LookupIInv, WithoutSound, ResultSound, HitIsReturned
<1> QED
    BY <1>1, LookupInvariance, PTL

-----------------------------------------------------------------------------
(* The refresh loop *)

Region == [of : LongIds, age : Nat, splits : Nat]

Bucket == [lo : Int, hi : Int, age : Nat]

\* The types the argument about the refresh loop needs; only the part of a round
\* that uses them has ids to look up, or entries to republish.
RefreshTyped ==
    /\ searched \in Region
    /\ round \in [pc : {"sleep", "refresh", "republish"}, left : Nat]
    /\ round.left <= (IF round.pc = "sleep" THEN Hour ELSE MaxRound)
    /\ round.pc # "refresh" => ids = {}
    /\ round.pc # "republish" => due = {}

\* Every long id has one bucket.
OneBucketEach ==
    /\ buckets \subseteq Bucket
    /\ \A x \in LongIds : \E b \in buckets : Covers(b, x)
    /\ \A b, c \in buckets : (\E x \in Int : Covers(b, x) /\ Covers(c, x)) => b = c

IdsFold == \A id \in ids : LongId[id] \in LongIds

\* How much longer a region has gone without a lookup than its splits excuse.
Excess == searched.age - searched.splits * Quiet

Awaited(b) == \E id \in ids : Covers(b, LongId[id])

\* A bucket passed over by a round was looked up less than an hour before it,
\* so that the next round draws an id for it.
Timely(b) ==
    /\ b.age <= Hour + 1 => Excess <= b.age
    /\ round.pc = "sleep" => Excess + round.left <= 2 * Hour + MaxRound
    /\ round.pc # "sleep" => \/ Excess + round.left <= Hour + MaxRound
                             \/ Awaited(b) /\ Excess + round.left <= Quiet

RegionTimed == \A b \in buckets : Covers(b, searched.of) => Timely(b)

RegionIInv == RefreshTyped /\ OneBucketEach /\ IdsFold /\ RegionTimed

\* What a round owes to an entry.
OfferedInTime(e) ==
    /\ stored[e] \in {Absent} \cup (0..(Hour + 1)) /\ offered[e] \in Nat
    /\ stored[e] = Absent => offered[e] = 0
    /\ stored[e] \in 0..Hour => offered[e] <= stored[e]
    /\ round.pc = "sleep" => offered[e] + round.left < 2 * Hour + MaxRound
    /\ round.pc = "refresh" => offered[e] + round.left < Quiet
    /\ round.pc = "republish" => \/ offered[e] + round.left < Hour + MaxRound
                                 \/ e \in due /\ offered[e] + round.left < Quiet

EntryIInv ==
    /\ RefreshTyped
    /\ stored \in [Entries -> Int] /\ offered \in [Entries -> Int]
    /\ \A e \in Entries : OfferedInTime(e)

-----------------------------------------------------------------------------
\* Initially every variable of the loop has its type.
LEMMA TypedInit == RefreshInit => RefreshTyped
    BY RefreshConstants, SMTT(40) DEF RefreshInit, RefreshTyped, Region

\* The durations are natural numbers, and an hour is not empty.
LEMMA HourFacts == Hour \in Nat /\ Hour > 0 /\ MaxRound \in Nat
    BY RefreshConstants

\* The longest silence of a region is two hours and two rounds.
LEMMA QuietFacts == /\ Quiet \in Nat /\ Quiet = 2 * Hour + 2 * MaxRound
                    /\ \A n \in Nat : n * Quiet \in Nat /\ (n + 1) * Quiet = n * Quiet + Quiet
<1>1. Quiet \in Nat /\ Quiet = 2 * Hour + 2 * MaxRound
    BY RefreshConstants DEF Quiet
<1>2. ASSUME NEW n \in Nat, NEW q \in Nat PROVE n * q \in Nat /\ (n + 1) * q = n * q + q
    OBVIOUS
<1> QED
    BY <1>1, <1>2, Zenon

\* What the model remembers of a region, after one of its fields is set.
LEMMA RegionAge ==
    ASSUME NEW s \in Region, NEW a \in Nat, NEW r, r = [s EXCEPT !.age = a]
    PROVE  r \in Region /\ r.of = s.of /\ r.age = a /\ r.splits = s.splits
    BY Zenon DEF Region

\* A new count of splits leaves the rest of a region.
LEMMA RegionSplits ==
    ASSUME NEW s \in Region, NEW n \in Nat, NEW r, r = [s EXCEPT !.splits = n]
    PROVE  r \in Region /\ r.of = s.of /\ r.age = s.age /\ r.splits = n
    BY Zenon DEF Region

\* A lookup forgets the quiet time of the region it touches, and of no other.
LEMMA Touched ==
    ASSUME searched \in Region, NEW b,
           searched' = IF Covers(b, searched.of) THEN [searched EXCEPT !.age = 0, !.splits = 0] ELSE searched
    PROVE  /\ searched' \in Region /\ searched'.of = searched.of
           /\ Covers(b, searched.of) => searched'.age = 0 /\ searched'.splits = 0
           /\ ~Covers(b, searched.of) => searched' = searched
<1> 0 \in Nat
    BY Zenon
<1>1. CASE Covers(b, searched.of)
  <2>1. searched' = [searched EXCEPT !.age = 0, !.splits = 0]
      BY <1>1, Zenon
  <2>2. searched' \in Region /\ searched'.of = searched.of /\ searched'.age = 0 /\ searched'.splits = 0
      BY <2>1, Zenon DEF Region
  <2> QED
      BY <1>1, <2>2, Zenon
<1>2. CASE ~Covers(b, searched.of)
    BY <1>2, Zenon
<1> QED
    BY <1>1, <1>2, Zenon

\* A touched region keeps its type.
LEMMA TouchTyped ==
    ASSUME searched \in Region, NEW x, Touch(x)
    PROVE  searched' \in Region
    BY Touched, Zenon DEF Touch

\* Every step keeps the types.
LEMMA TypedStep ==
    ASSUME RefreshTyped, [RefreshNext]_refreshVars
    PROVE  RefreshTyped'
<1> USE RefreshConstants
<1>1. CASE Wake
    BY <1>1, SMTT(40) DEF RefreshTyped, Wake
<1>2. ASSUME NEW id \in ids, SearchFor(id) PROVE RefreshTyped'
    BY <1>2, TouchTyped, Zenon DEF RefreshTyped, SearchFor
<1>3. CASE CrawlsEnd
    BY <1>3, Zenon DEF RefreshTyped, CrawlsEnd
<1>4. ASSUME NEW e \in due, Republish(e) PROVE RefreshTyped'
    BY <1>4, TouchTyped, Zenon DEF RefreshTyped, Republish
<1>5. CASE RoundEnds
    BY <1>5, SMTT(40) DEF RefreshTyped, RoundEnds, SleepAgain
<1>6. CASE Tick
  <2>1. PICK a \in Nat : searched' = [searched EXCEPT !.age = a]
    <3>1. searched.age \in Nat
        BY Zenon DEF RefreshTyped, Region
    <3>2. searched' = [searched EXCEPT !.age = Older(searched.age, (1 + searched.splits) * Quiet + 1)]
        BY <1>6, Zenon DEF Tick
    <3>3. Older(searched.age, (1 + searched.splits) * Quiet + 1) \in Nat
        BY <3>1 DEF Older
    <3> QED
        BY <3>2, <3>3, Zenon
  <2>2. searched' \in Region
    <3>1. searched \in Region
        BY Zenon DEF RefreshTyped
    <3> QED
        BY <2>1, <3>1, RegionAge, Zenon
  <2>3. round' = [round EXCEPT !.left = round.left - 1] /\ round.left > 0 /\ UNCHANGED <<ids, due>>
      BY <1>6, Zenon DEF Tick
  <2>4. PICK l \in Nat : l = round.left
      BY Zenon DEF RefreshTyped
  <2>5. l - 1 \in Nat /\ (\A n \in Nat : l <= n => l - 1 <= n)
      BY <2>3, <2>4
  <2>6. round' \in [pc : {"sleep", "refresh", "republish"}, left : Nat]
        /\ round'.pc = round.pc /\ round'.left = l - 1
      BY <2>3, <2>4, <2>5, Zenon DEF RefreshTyped
  <2>7. round'.left <= (IF round'.pc = "sleep" THEN Hour ELSE MaxRound)
      BY <2>4, <2>5, <2>6, HourFacts, Zenon DEF RefreshTyped
  <2> QED
      BY <2>2, <2>3, <2>6, <2>7, Zenon DEF RefreshTyped
<1>7. ASSUME NEW b \in buckets, Split(b) PROVE RefreshTyped'
  <2>1. searched.splits \in Nat /\ searched.splits + 1 \in Nat
      BY DEF RefreshTyped, Region
  <2>2. searched' = searched \/ searched' = [searched EXCEPT !.splits = searched.splits + 1]
      BY <1>7, Zenon DEF Split
  <2>3. searched' \in Region
      BY <2>1, <2>2, RegionSplits DEF RefreshTyped
  <2> QED
      BY <1>7, <2>3, Zenon DEF RefreshTyped, Split
<1>8. ASSUME NEW x \in LongIds, Traffic(x) PROVE RefreshTyped'
    BY <1>8, TouchTyped, Zenon DEF RefreshTyped, Traffic
<1>9. ASSUME NEW e \in Entries, Store(e) \/ Drop(e) PROVE RefreshTyped'
    BY <1>9, Zenon DEF RefreshTyped, Store, Drop
<1>10. CASE UNCHANGED refreshVars
    BY <1>10, Zenon DEF RefreshTyped, refreshVars
<1> QED
    BY <1>1, <1>2, <1>3, <1>4, <1>5, <1>6, <1>7, <1>8, <1>9, <1>10, Zenon DEF RefreshNext, ScheduleRefresh

-----------------------------------------------------------------------------
\* Initially no entry is held, and the loop sleeps for an hour.
LEMMA EntryInit == RefreshInit => EntryIInv
<1> SUFFICES ASSUME RefreshInit PROVE EntryIInv
    BY Zenon
<1>1. RefreshTyped
    BY TypedInit, Zenon
<1> QED
    BY <1>1, HourFacts, SMTT(40) DEF RefreshInit, EntryIInv, OfferedInTime, Absent

\* A step that leaves an entry alone keeps what is owed to it, when the round
\* goes on as far as the entry can tell.
LEMMA EntryAlone ==
    ASSUME NEW e \in Entries, OfferedInTime(e), stored'[e] = stored[e], offered'[e] = offered[e],
           round' = round, e \in due => e \in due'
    PROVE  OfferedInTime(e)'
    BY Zenon DEF OfferedInTime

\* An entry just written or deleted is owed nothing until the next round but one.
LEMMA EntryFresh ==
    ASSUME RefreshTyped', NEW e \in Entries, stored'[e] \in {Absent, 0}, offered'[e] = 0
    PROVE  OfferedInTime(e)'
    BY HourFacts, QuietFacts, SMTT(40) DEF RefreshTyped, OfferedInTime, Absent

\* Every step keeps the invariant of an entry.
LEMMA EntryStep ==
    ASSUME EntryIInv, [RefreshNext]_refreshVars
    PROVE  EntryIInv'
<1>1. RefreshTyped /\ RefreshTyped' /\ stored \in [Entries -> Int] /\ offered \in [Entries -> Int]
    BY TypedStep, Zenon DEF EntryIInv
<1>2. \A e \in Entries : OfferedInTime(e)
    BY Zenon DEF EntryIInv
<1>3. ASSUME stored' \in [Entries -> Int], offered' \in [Entries -> Int],
             \A e \in Entries : OfferedInTime(e)'
      PROVE  EntryIInv'
    BY <1>1, <1>3, Zenon DEF EntryIInv
<1>4. ASSUME UNCHANGED <<stored, offered, round>>, due \subseteq due'
      PROVE  EntryIInv'
    BY <1>1, <1>2, <1>4, EntryAlone, Zenon DEF EntryIInv
<1>5. ASSUME NEW e \in Entries, stored' = [stored EXCEPT ![e] = stored'[e]], stored'[e] \in {Absent, 0},
             offered' = [offered EXCEPT ![e] = 0], UNCHANGED <<round, due>>
      PROVE  EntryIInv'
  <2>1. stored' \in [Entries -> Int] /\ offered' \in [Entries -> Int] /\ offered'[e] = 0
      BY <1>1, <1>5 DEF Absent
  <2>2. \A u \in Entries \ {e} : stored'[u] = stored[u] /\ offered'[u] = offered[u]
      BY <1>1, <1>5, Zenon
  <2>3. \A u \in Entries \ {e} : OfferedInTime(u)'
      BY <1>2, <1>5, <2>2, EntryAlone, Zenon
  <2>4. OfferedInTime(e)'
      BY <1>1, <1>5, <2>1, EntryFresh, Zenon
  <2> QED
      BY <1>1, <2>1, <2>3, <2>4, Zenon DEF EntryIInv
<1>6. CASE Wake
  <2>1. UNCHANGED <<stored, offered, due>> /\ round.pc = "sleep" /\ round.left = 0
        /\ round'.pc = "refresh" /\ round'.left = MaxRound
      BY <1>6, Zenon DEF Wake
  <2> QED
      BY <1>1, <1>2, <1>3, <2>1, HourFacts, QuietFacts, SMTT(40) DEF OfferedInTime
<1>7. ASSUME NEW id \in ids, SearchFor(id) PROVE EntryIInv'
    BY <1>4, <1>7, Zenon DEF SearchFor
<1>8. CASE CrawlsEnd
  <2>1. /\ UNCHANGED <<stored, offered>> /\ due' = OlderThanAnHour
        /\ round.pc = "refresh" /\ round'.pc = "republish" /\ round'.left = round.left
      BY <1>1, <1>8, Zenon DEF CrawlsEnd, RefreshTyped
  <2>2. round.left \in Nat /\ round.left <= MaxRound
      BY <1>1, <2>1, Zenon DEF RefreshTyped
  <2>3. ASSUME NEW e \in Entries PROVE OfferedInTime(e)'
    <3>1. CASE stored[e] >= Hour
      <4>1. e \in due'
          BY <2>1, <3>1, Zenon DEF OlderThanAnHour
      <4> QED
          BY <1>2, <2>1, <2>2, <4>1, Zenon DEF OfferedInTime
    <3>2. CASE stored[e] < Hour
        BY <1>1, <1>2, <2>1, <2>2, <3>2, HourFacts, SMTT(40) DEF OfferedInTime, Absent
    <3> QED
        BY <1>1, <3>1, <3>2, HourFacts
  <2> QED
      BY <1>1, <1>3, <2>1, <2>3, Zenon
<1>9. ASSUME NEW e \in due, Republish(e) PROVE EntryIInv'
  <2>1. /\ UNCHANGED <<stored, round>> /\ round.pc = "republish" /\ due' = due \ {e}
        /\ offered' = [offered EXCEPT ![e] = 0]
      BY <1>9, Zenon DEF Republish
  <2>2. \A u \in Entries : u # e => OfferedInTime(u)'
      BY <1>1, <1>2, <2>1, EntryAlone, Zenon
  <2>3. e \in Entries => OfferedInTime(e)'
    <3>1. round.left \in Nat /\ round.left <= MaxRound
        BY <1>1, <2>1, Zenon DEF RefreshTyped
    <3>2. e \in Entries => offered'[e] = 0
        BY <1>1, <2>1, Zenon
    <3> QED
        BY <1>2, <2>1, <3>1, <3>2, HourFacts, SMTT(40) DEF OfferedInTime
  <2>4. stored' \in [Entries -> Int] /\ offered' \in [Entries -> Int]
    <3>1. offered' = [u \in Entries |-> IF u = e THEN 0 ELSE offered[u]]
        BY <1>1, <2>1, Zenon
    <3>2. \A u \in Entries : (IF u = e THEN 0 ELSE offered[u]) \in Int
        BY <1>1
    <3>3. stored' = stored
        BY <2>1, Zenon
    <3> QED
        BY <1>1, <3>1, <3>2, <3>3, Zenon
  <2> QED
      BY <1>3, <2>2, <2>3, <2>4, Zenon
<1>10. CASE RoundEnds
  <2>1. /\ UNCHANGED <<stored, offered, due>> /\ round.pc = "republish" /\ due = {}
        /\ round'.pc = "sleep" /\ round'.left = Hour /\ round.left \in Nat
      BY <1>1, <1>10, Zenon DEF RoundEnds, SleepAgain, RefreshTyped
  <2> QED
      BY <1>1, <1>2, <1>3, <2>1, HourFacts, SMTT(40) DEF OfferedInTime
<1>11. CASE Tick
  <2>1. /\ round.left \in Nat /\ round.left > 0 /\ round'.pc = round.pc /\ round'.left = round.left - 1
        /\ round.pc \in {"sleep", "refresh", "republish"} /\ due' = due
      BY <1>1, <1>11, Zenon DEF Tick, RefreshTyped
  <2>2. ASSUME NEW e \in Entries
        PROVE  /\ stored'[e] = IF stored[e] = Absent THEN Absent ELSE Older(stored[e], Hour + 1)
               /\ offered'[e] = IF stored[e] = Absent THEN 0 ELSE Older(offered[e], Quiet)
      BY <1>11, Zenon DEF Tick
  <2>3. ASSUME NEW e \in Entries PROVE OfferedInTime(e)' /\ stored'[e] \in Int /\ offered'[e] \in Int
    <3>1. CASE stored[e] = Absent
        BY <1>1, <2>2, <3>1, EntryFresh, SMTT(40) DEF Absent
    <3>2. CASE stored[e] # Absent
      <4>1. /\ stored[e] \in 0..(Hour + 1) /\ offered[e] \in Nat
            /\ stored'[e] = Older(stored[e], Hour + 1) /\ offered'[e] = Older(offered[e], Quiet)
          BY <1>2, <2>2, <3>2, Zenon DEF OfferedInTime
      <4>2. /\ stored'[e] \in 0..(Hour + 1) /\ (stored'[e] = stored[e] + 1 \/ stored'[e] = Hour + 1)
            /\ offered'[e] \in Nat /\ (offered'[e] = offered[e] \/ offered'[e] = offered[e] + 1)
          BY <4>1, HourFacts DEF Older
      <4>3. stored'[e] # Absent /\ stored'[e] \in Int /\ offered'[e] \in Int
          BY <4>2, HourFacts DEF Absent
      <4>4. stored'[e] \in 0..Hour => offered'[e] <= stored'[e]
        <5>1. stored[e] \in 0..Hour => offered[e] <= stored[e]
            BY <1>2, Zenon DEF OfferedInTime
        <5> QED
            BY <4>1, <4>2, <5>1, HourFacts
      <4>5. \A n \in Nat : offered[e] + round.left < n => offered'[e] + round'.left < n
          BY <2>1, <4>1, <4>2
      <4>6. 2 * Hour + MaxRound \in Nat /\ Hour + MaxRound \in Nat /\ Quiet \in Nat
          BY HourFacts, QuietFacts
      <4> QED
          BY <1>2, <2>1, <4>2, <4>3, <4>4, <4>5, <4>6, Zenon DEF OfferedInTime
    <3> QED
        BY <3>1, <3>2, Zenon
  <2> QED
      BY <1>3, <1>11, <2>3, Zenon DEF Tick
<1>12. ASSUME NEW b \in buckets, Split(b) PROVE EntryIInv'
    BY <1>4, <1>12, Zenon DEF Split
<1>13. ASSUME NEW x \in LongIds, Traffic(x) PROVE EntryIInv'
    BY <1>4, <1>13, Zenon DEF Traffic
<1>14. ASSUME NEW e \in Entries, Store(e) \/ Drop(e) PROVE EntryIInv'
    BY <1>1, <1>5, <1>14, Zenon DEF Store, Drop
<1>15. CASE UNCHANGED refreshVars
    BY <1>4, <1>15, Zenon DEF refreshVars
<1> QED
    BY <1>6, <1>7, <1>8, <1>9, <1>10, <1>11, <1>12, <1>13, <1>14, <1>15, Zenon DEF RefreshNext, ScheduleRefresh

\* For any hour, any length of a round and any entries, the loop deals with
\* every entry it holds within two rounds (schedule_refresh, iter_older_than).
THEOREM EntriesAreOffered == RefreshSafety => []EntriesOffered
<1>1. EntryIInv /\ [RefreshNext]_refreshVars => EntryIInv'
    BY EntryStep, Zenon
<1>2. EntryIInv => EntriesOffered
    BY HourFacts, QuietFacts DEF EntryIInv, RefreshTyped, OfferedInTime, EntriesOffered
<1> QED
    BY EntryInit, <1>1, <1>2, PTL DEF RefreshSafety

-----------------------------------------------------------------------------
\* The time a region has waited beyond its splits is an integer.
LEMMA ExcessInt == (RefreshTyped => Excess \in Int) /\ (RefreshTyped' => Excess' \in Int)
<1>1. ASSUME NEW s \in Region PROVE s.age - s.splits * Quiet \in Int
  <2>1. s.age \in Nat /\ s.splits \in Nat
      BY Zenon DEF Region
  <2>2. s.splits * Quiet \in Nat
      BY <2>1, QuietFacts, Zenon
  <2> QED
      BY <2>1, <2>2
<1> QED
    BY <1>1, Zenon DEF RefreshTyped, Excess

\* Replacing a bucket by ones that share its range among them keeps one bucket
\* for each id.
LEMMA Replaced ==
    ASSUME OneBucketEach, NEW b \in buckets, NEW N \in SUBSET Bucket,
           buckets' = (buckets \ {b}) \cup N,
           \A x \in Int : Covers(b, x) <=> \E n \in N : Covers(n, x),
           \A n, m \in N : (\E x \in Int : Covers(n, x) /\ Covers(m, x)) => n = m
    PROVE  /\ OneBucketEach'
           /\ \A c \in buckets', x \in Int : Covers(c, x) =>
                 \/ c \in N /\ Covers(b, x)
                 \/ c \in buckets /\ ~Covers(b, x)
<1>1. ASSUME NEW c \in buckets', NEW x \in Int, Covers(c, x)
      PROVE  \/ c \in N /\ Covers(b, x)
             \/ c \in buckets /\ ~Covers(b, x)
  <2>1. CASE c \in N
      BY <1>1, <2>1, Zenon
  <2>2. CASE c \in buckets /\ c # b
      BY <1>1, <2>2, Zenon DEF OneBucketEach
  <2> QED
      BY <2>1, <2>2, Zenon
<1>2. buckets' \subseteq Bucket
    BY Zenon DEF OneBucketEach
<1>3. LongIds \subseteq Int
    BY RefreshConstants DEF LongIds
<1>4. ASSUME NEW x \in LongIds PROVE \E c \in buckets' : Covers(c, x)
    BY <1>3, Zenon DEF OneBucketEach
<1>5. ASSUME NEW c \in buckets', NEW d \in buckets', NEW x \in Int, Covers(c, x), Covers(d, x)
      PROVE  c = d
  <2>1. CASE c \in N /\ d \in N
      BY <1>5, <2>1, Zenon
  <2>2. CASE c \in buckets /\ d \in buckets
      BY <1>5, <2>2, Zenon DEF OneBucketEach
  <2> QED
      BY <1>1, <1>5, <2>1, <2>2, Zenon
<1> QED
    BY <1>1, <1>2, <1>4, <1>5, Zenon DEF OneBucketEach, Covers

\* A bucket with a new timer.
LEMMA FreshTimely ==
    ASSUME RefreshTyped', Excess' \in Int, Excess' <= 0, NEW c \in Bucket
    PROVE  Timely(c)'
<1>1. /\ round'.left \in Nat
      /\ round'.pc = "sleep" => round'.left <= Hour
      /\ round'.pc # "sleep" => round'.left <= MaxRound
    BY Zenon DEF RefreshTyped
<1>2. c.age \in Nat
    BY Zenon DEF Bucket
<1> QED
    BY <1>1, <1>2, HourFacts DEF Timely

\* A lookup gives the bucket of its target a new timer.
LEMMA TouchRegion ==
    ASSUME RegionIInv, RefreshTyped', NEW x, Touch(x), round' = round,
           ids' \subseteq ids, \A id \in ids \ ids' : LongId[id] = x
    PROVE  RegionIInv'
<1>1. PICK b \in buckets :
         /\ Covers(b, x)
         /\ buckets' = (buckets \ {b}) \cup {[b EXCEPT !.age = 0]}
         /\ searched' = IF Covers(b, searched.of) THEN [searched EXCEPT !.age = 0, !.splits = 0] ELSE searched
    BY Zenon DEF Touch
<1>2. /\ RefreshTyped /\ OneBucketEach /\ IdsFold /\ RegionTimed
      /\ buckets \subseteq Bucket /\ b \in Bucket /\ searched \in Region /\ searched.of \in LongIds
    BY Zenon DEF RegionIInv, OneBucketEach, RefreshTyped, Region
<1>3. LongIds \subseteq Int /\ 0 \in Nat
    BY RefreshConstants DEF LongIds
<1>4. PICK n : n = [b EXCEPT !.age = 0]
    BY Zenon
<1>5. n \in Bucket /\ n.age = 0 /\ \A y : Covers(n, y) <=> Covers(b, y)
  <2>1. n \in Bucket /\ n.age = 0 /\ n.lo = b.lo /\ n.hi = b.hi
      BY <1>2, <1>3, <1>4, Zenon DEF Bucket
  <2> QED
      BY <2>1, Zenon DEF Covers
<1>6. /\ OneBucketEach'
      /\ \A c \in buckets', y \in Int : Covers(c, y) =>
            \/ c = n /\ Covers(b, y)
            \/ c \in buckets /\ ~Covers(b, y)
  <2>1. {n} \in SUBSET Bucket /\ buckets' = (buckets \ {b}) \cup {n}
      BY <1>1, <1>4, <1>5, Zenon
  <2>2. \A y \in Int : Covers(b, y) <=> \E m \in {n} : Covers(m, y)
      BY <1>5, Zenon
  <2>3. \A m, o \in {n} : (\E y \in Int : Covers(m, y) /\ Covers(o, y)) => m = o
      BY Zenon
  <2>4. /\ OneBucketEach'
        /\ \A c \in buckets', y \in Int : Covers(c, y) =>
              \/ c \in {n} /\ Covers(b, y)
              \/ c \in buckets /\ ~Covers(b, y)
      BY <1>2, <2>1, <2>2, <2>3, Replaced, Zenon
  <2> QED
      BY <2>4, Zenon
<1>7. /\ searched'.of = searched.of
      /\ Covers(b, searched.of) => searched'.age = 0 /\ searched'.splits = 0
      /\ ~Covers(b, searched.of) => searched' = searched
    BY <1>1, <1>2, Touched, Zenon
<1>8. Excess' \in Int /\ (Covers(b, searched.of) => Excess' <= 0)
  <2>1. Excess' \in Int
      BY ExcessInt, Zenon
  <2>2. 0 - 0 * Quiet <= 0
      BY QuietFacts
  <2> QED
      BY <1>7, <2>1, <2>2, Zenon DEF Excess
<1>9. IdsFold'
    BY <1>2, Zenon DEF IdsFold
<1>10. ASSUME NEW c \in buckets', Covers(c, searched'.of) PROVE Timely(c)'
  <2>1. CASE Covers(b, searched.of)
      BY <1>2, <1>3, <1>5, <1>6, <1>7, <1>8, <1>10, <2>1, FreshTimely, Zenon
  <2>2. CASE ~Covers(b, searched.of)
    <3>1. c \in buckets /\ Covers(c, searched.of) /\ searched' = searched /\ c # b
        BY <1>2, <1>3, <1>6, <1>7, <1>10, <2>2, Zenon
    <3>2. Timely(c)
        BY <1>2, <3>1, Zenon DEF RegionTimed
    <3>3. ASSUME Awaited(c) PROVE Awaited(c)'
      <4>1. PICK id \in ids : Covers(c, LongId[id])
          BY <3>3, Zenon DEF Awaited
      <4>2. LongId[id] \in Int
          BY <1>2, <1>3, Zenon DEF IdsFold
      <4>3. LongId[id] # x
          BY <1>1, <1>2, <3>1, <4>1, <4>2, Zenon DEF OneBucketEach
      <4> QED
          BY <4>1, <4>3, Zenon DEF Awaited
    <3>4. Excess' = Excess
        BY <3>1, Zenon DEF Excess
    <3> QED
        BY <3>2, <3>3, <3>4, Zenon DEF Timely
  <2> QED
      BY <2>1, <2>2, Zenon
<1> QED
    BY <1>6, <1>9, <1>10, Zenon DEF RegionIInv, RegionTimed

\* A region of a timely bucket is not overdue.
LEMMA TimelyBound ==
    ASSUME RefreshTyped, NEW b, Timely(b)
    PROVE  Excess <= Quiet
<1>1. round.left \in Nat /\ Excess \in Int
    BY ExcessInt, Zenon DEF RefreshTyped
<1> QED
    BY <1>1, HourFacts, QuietFacts DEF Timely

\* A split starts two new timers, and excuses the region for another two rounds.
LEMMA SplitRegion ==
    ASSUME RegionIInv, RefreshTyped', NEW b \in buckets, Split(b)
    PROVE  RegionIInv'
<1>1. /\ RefreshTyped /\ OneBucketEach /\ IdsFold /\ RegionTimed
      /\ buckets \subseteq Bucket /\ b \in Bucket /\ searched \in Region /\ searched.of \in LongIds
    BY Zenon DEF RegionIInv, OneBucketEach, RefreshTyped, Region
<1>2. b.lo \in Int /\ b.hi \in Int /\ LongIds \subseteq Int /\ 0 \in Nat
    BY <1>1, RefreshConstants DEF LongIds, Bucket
<1>3. PICK mid : mid = b.lo + (b.hi - b.lo) \div 2
    BY Zenon
<1>4. b.lo < b.hi /\ UNCHANGED <<round, ids>>
    BY Zenon DEF Split
<1>5. mid \in Int /\ mid + 1 \in Int /\ b.lo <= mid /\ mid < b.hi
    BY <1>2, <1>3, <1>4
<1>6. PICK l, h : l = [lo |-> b.lo, hi |-> mid, age |-> 0] /\ h = [lo |-> mid + 1, hi |-> b.hi, age |-> 0]
    BY Zenon
<1> DEFINE N == {l, h}
<1>7. /\ l \in Bucket /\ l.lo = b.lo /\ l.hi = mid /\ l.age = 0
      /\ h \in Bucket /\ h.lo = mid + 1 /\ h.hi = b.hi /\ h.age = 0
    BY <1>2, <1>5, <1>6, Zenon DEF Bucket
<1>8. \A x \in Int : Covers(b, x) <=> \E n \in N : Covers(n, x)
  <2>1. ASSUME NEW x \in Int
        PROVE  (b.lo <= x /\ x <= b.hi) <=> (b.lo <= x /\ x <= mid) \/ (mid + 1 <= x /\ x <= b.hi)
      BY <1>2, <1>5
  <2>2. ASSUME NEW x \in Int
        PROVE  (\E n \in N : Covers(n, x)) <=> (b.lo <= x /\ x <= mid) \/ (mid + 1 <= x /\ x <= b.hi)
      BY <1>7, Zenon DEF Covers
  <2> QED
      BY <2>1, <2>2, Zenon DEF Covers
<1>9. \A n, m \in N : (\E x \in Int : Covers(n, x) /\ Covers(m, x)) => n = m
  <2>1. ASSUME NEW x \in Int PROVE ~(x <= mid /\ mid + 1 <= x)
      BY <1>5
  <2> QED
      BY <1>7, <2>1, Zenon DEF Covers
<1>10. /\ OneBucketEach'
       /\ \A c \in buckets', x \in Int : Covers(c, x) =>
             \/ c \in N /\ Covers(b, x)
             \/ c \in buckets /\ ~Covers(b, x)
  <2>1. buckets' = (buckets \ {b}) \cup N
      BY <1>3, <1>6, Zenon DEF Split
  <2> QED
      BY <1>1, <1>7, <1>8, <1>9, <2>1, N \in SUBSET Bucket, Replaced, Zenon
<1>11. IdsFold'
    BY <1>1, <1>4, Zenon DEF IdsFold
<1>12. CASE Covers(b, searched.of)
  <2>1. searched.splits \in Nat /\ searched.age \in Nat /\ searched.splits + 1 \in Nat
      BY <1>1 DEF Region
  <2>2. searched' = [searched EXCEPT !.splits = searched.splits + 1]
      BY <1>12, Zenon DEF Split
  <2>3. searched'.of = searched.of /\ searched'.age = searched.age /\ searched'.splits = searched.splits + 1
      BY <1>1, <2>2, Zenon DEF Region
  <2>4. Excess <= Quiet
      BY <1>1, <1>12, TimelyBound, Zenon DEF RegionTimed
  <2>5. Excess' \in Int /\ Excess \in Int
      BY <1>1, ExcessInt, Zenon
  <2>6. Excess' = Excess - Quiet
    <3>1. /\ searched.splits * Quiet \in Nat /\ Quiet \in Nat
          /\ (searched.splits + 1) * Quiet = searched.splits * Quiet + Quiet
        BY <2>1, QuietFacts, Zenon
    <3>2. Excess' = searched.age - (searched.splits + 1) * Quiet
        BY <2>3, Zenon DEF Excess
    <3> QED
        BY <2>1, <3>1, <3>2 DEF Excess
  <2>7. Excess' <= 0
      BY <2>4, <2>5, <2>6, QuietFacts
  <2>8. ASSUME NEW c \in buckets', Covers(c, searched'.of) PROVE Timely(c)'
    <3>1. c \in Bucket
        BY <1>1, <1>2, <1>7, <1>10, <1>12, <2>3, <2>8, Zenon
    <3> QED
        BY <2>5, <2>7, <3>1, FreshTimely, Zenon
  <2> QED
      BY <1>10, <1>11, <2>8, Zenon DEF RegionIInv, RegionTimed
<1>13. CASE ~Covers(b, searched.of)
  <2>1. searched' = searched
      BY <1>13, Zenon DEF Split
  <2>2. ASSUME NEW c \in buckets', Covers(c, searched'.of) PROVE Timely(c)'
    <3>1. c \in buckets /\ Covers(c, searched.of)
        BY <1>1, <1>2, <1>10, <1>13, <2>1, <2>2, Zenon
    <3>2. Timely(c)
        BY <1>1, <3>1, Zenon DEF RegionTimed
    <3>3. Excess' = Excess /\ (Awaited(c)' <=> Awaited(c))
        BY <1>4, <2>1, Zenon DEF Excess, Awaited
    <3> QED
        BY <1>4, <3>2, <3>3, Zenon DEF Timely
  <2> QED
      BY <1>10, <1>11, <2>2, Zenon DEF RegionIInv, RegionTimed
<1> QED
    BY <1>12, <1>13, Zenon

\* A tick makes every bucket and the region a tick older.
LEMMA TickRegion ==
    ASSUME RegionIInv, RefreshTyped', Tick
    PROVE  RegionIInv'
<1>1. /\ RefreshTyped /\ OneBucketEach /\ IdsFold /\ RegionTimed
      /\ buckets \subseteq Bucket /\ searched \in Region /\ searched.of \in LongIds
    BY Zenon DEF RegionIInv, OneBucketEach, RefreshTyped, Region
<1> DEFINE Later(b) == [b EXCEPT !.age = Older(b.age, Hour + 2)]
<1>2. /\ buckets' = {Later(b) : b \in buckets}
      /\ searched' = [searched EXCEPT !.age = Older(searched.age, (1 + searched.splits) * Quiet + 1)]
      /\ UNCHANGED ids
      /\ round.left > 0 /\ round.left \in Nat /\ round'.left = round.left - 1 /\ round'.pc = round.pc
    BY <1>1, Zenon DEF Tick, RefreshTyped
<1>3. ASSUME NEW c \in buckets'
      PROVE  \E b \in buckets : /\ c = Later(b) /\ c \in Bucket
                                /\ c.age = Older(b.age, Hour + 2) /\ \A x : Covers(c, x) <=> Covers(b, x)
  <2>1. PICK b \in buckets : c = Later(b)
      BY <1>2, Zenon
  <2>2. b \in Bucket /\ b.age \in Nat
      BY <1>1, Zenon DEF Bucket
  <2>3. Older(b.age, Hour + 2) \in Nat
      BY <2>2 DEF Older
  <2>4. c \in Bucket /\ c.age = Older(b.age, Hour + 2) /\ c.lo = b.lo /\ c.hi = b.hi
      BY <2>1, <2>2, <2>3, Zenon DEF Bucket
  <2> QED
      BY <2>1, <2>4, Zenon DEF Covers
<1>4. OneBucketEach'
  <2>1. \A x \in LongIds : \E c \in buckets' : Covers(c, x)
    <3> SUFFICES ASSUME NEW x \in LongIds PROVE \E c \in buckets' : Covers(c, x)
        BY Zenon
    <3>1. PICK b \in buckets : Covers(b, x)
        BY <1>1, Zenon DEF OneBucketEach
    <3>2. PICK c \in buckets' : c = Later(b)
        BY <1>2, Zenon
    <3>3. c.lo = b.lo /\ c.hi = b.hi
        BY <1>1, <3>2, Zenon DEF Bucket
    <3> QED
        BY <3>1, <3>3, Zenon DEF Covers
  <2>2. ASSUME NEW c \in buckets', NEW d \in buckets', NEW x \in Int, Covers(c, x), Covers(d, x)
        PROVE  c = d
    <3> HIDE DEF Later
    <3>1. PICK b \in buckets : c = Later(b) /\ Covers(b, x)
        BY <1>3, <2>2, Zenon
    <3>2. PICK e \in buckets : d = Later(e) /\ Covers(e, x)
        BY <1>3, <2>2, Zenon
    <3>3. b = e
        BY <1>1, <3>1, <3>2, Zenon DEF OneBucketEach
    <3> QED
        BY <3>1, <3>2, <3>3, Zenon
  <2> QED
      BY <1>3, <2>1, <2>2, Zenon DEF OneBucketEach, Covers
<1>5. searched'.of = searched.of /\ Excess \in Int /\ Excess' \in Int /\ Excess' <= Excess + 1
  <2>1. searched.age \in Nat /\ searched.splits \in Nat
      BY <1>1, Zenon DEF Region
  <2>2. searched'.of = searched.of /\ searched'.splits = searched.splits
        /\ searched'.age = Older(searched.age, (1 + searched.splits) * Quiet + 1)
      BY <1>1, <1>2, Zenon DEF Region
  <2>3. searched'.age = searched.age \/ searched'.age = searched.age + 1
      BY <2>2, Zenon DEF Older
  <2>4. searched.splits * Quiet \in Nat
      BY <2>1, QuietFacts, Zenon
  <2>5. Excess' = searched'.age - searched.splits * Quiet
      BY <2>2, Zenon DEF Excess
  <2>6. Excess' = Excess \/ Excess' = Excess + 1
      BY <2>1, <2>3, <2>4, <2>5 DEF Excess
  <2>7. Excess \in Int /\ Excess' \in Int
      BY <1>1, ExcessInt, Zenon
  <2> QED
      BY <2>2, <2>6, <2>7
<1>6. ASSUME NEW c \in buckets', Covers(c, searched'.of) PROVE Timely(c)'
  <2>1. PICK b \in buckets : c.age = Older(b.age, Hour + 2) /\ \A x : Covers(c, x) <=> Covers(b, x)
      BY <1>3, Zenon
  <2>2. b.age \in Nat
      BY <1>1, Zenon DEF Bucket
  <2>3. c.age \in Nat /\ (c.age <= Hour + 1 => b.age <= Hour + 1 /\ c.age = b.age + 1)
      BY <2>1, <2>2, HourFacts DEF Older
  <2>4. Timely(b)
      BY <1>1, <1>5, <1>6, <2>1, Zenon DEF RegionTimed
  <2>5. Awaited(c)' <=> Awaited(b)
      BY <1>2, <2>1, Zenon DEF Awaited
  <2> QED
      BY <1>2, <1>5, <2>2, <2>3, <2>4, <2>5, HourFacts, QuietFacts DEF Timely
<1>7. IdsFold'
    BY <1>1, <1>2, Zenon DEF IdsFold
<1> QED
    BY <1>4, <1>6, <1>7, Zenon DEF RegionIInv, RegionTimed

\* A round draws an id for every lonely bucket, and the id is looked up in that
\* bucket: it is folded into the number drawn from the bucket's range.
LEMMA WakeRegion ==
    ASSUME RegionIInv, RefreshTyped', Wake
    PROVE  RegionIInv'
<1>1. /\ RefreshTyped /\ OneBucketEach /\ RegionTimed /\ buckets \subseteq Bucket
    BY Zenon DEF RegionIInv, OneBucketEach
<1>2. /\ UNCHANGED <<buckets, searched>>
      /\ round.pc = "sleep" /\ round.left = 0 /\ round'.pc = "refresh" /\ round'.left = MaxRound
    BY Zenon DEF Wake
<1>3. PICK pick \in [LonelyBuckets -> LongIds] :
         /\ \A b \in LonelyBuckets : Covers(b, pick[b])
         /\ ids' = {RefreshId(pick[b]) : b \in LonelyBuckets}
    BY Zenon DEF Wake
<1>4. \A r \in LongIds : LongId[RefreshId(r)] = r
    BY RefreshConstants, Zenon DEF RefreshId
<1>5. OneBucketEach'
    BY <1>1, <1>2, Zenon DEF OneBucketEach
<1>6. IdsFold'
    BY <1>3, <1>4, Zenon DEF IdsFold
<1>7. Excess \in Int /\ Excess' = Excess
    BY <1>1, <1>2, ExcessInt, Zenon DEF Excess
<1>8. ASSUME NEW b \in buckets', Covers(b, searched'.of) PROVE Timely(b)'
  <2>1. b \in buckets /\ b.age \in Nat /\ Timely(b)
      BY <1>1, <1>2, <1>8, Zenon DEF RegionTimed, Bucket
  <2>2. CASE b \in LonelyBuckets
    <3>1. Awaited(b)'
        BY <1>3, <1>4, <2>2, Zenon DEF Awaited
    <3> QED
        BY <1>2, <1>7, <2>1, <3>1, HourFacts, QuietFacts DEF Timely
  <2>3. CASE b \notin LonelyBuckets
    <3>1. b.age <= Hour
        BY <2>1, <2>3, HourFacts DEF LonelyBuckets, IsLonely
    <3> QED
        BY <1>2, <1>7, <2>1, <3>1, HourFacts DEF Timely
  <2> QED
      BY <2>2, <2>3, Zenon
<1> QED
    BY <1>5, <1>6, <1>8, Zenon DEF RegionIInv, RegionTimed

\* Every step keeps the invariant of a region.
LEMMA RegionStep ==
    ASSUME RegionIInv, [RefreshNext]_refreshVars
    PROVE  RegionIInv'
<1>1. RefreshTyped /\ RefreshTyped'
    BY TypedStep, Zenon DEF RegionIInv
<1>2. ASSUME UNCHANGED <<buckets, searched, ids>>,
             \A b \in buckets : Covers(b, searched.of) /\ Timely(b) => Timely(b)'
      PROVE  RegionIInv'
  <2>1. OneBucketEach' /\ IdsFold'
      BY <1>2, Zenon DEF RegionIInv, OneBucketEach, IdsFold
  <2>2. RegionTimed'
      BY <1>2, Zenon DEF RegionIInv, RegionTimed
  <2> QED
      BY <1>1, <2>1, <2>2, Zenon DEF RegionIInv
<1>3. CASE Wake
    BY <1>1, <1>3, WakeRegion, Zenon
<1>4. ASSUME NEW id \in ids, SearchFor(id) PROVE RegionIInv'
  <2>1. Touch(LongId[id]) /\ ids' = ids \ {id} /\ round' = round
      BY <1>4, Zenon DEF SearchFor
  <2> QED
      BY <1>1, <2>1, TouchRegion, Zenon
<1>5. CASE CrawlsEnd
  <2>1. /\ UNCHANGED <<buckets, searched, ids>> /\ ids = {}
        /\ round.pc = "refresh" /\ round'.pc = "republish" /\ round'.left = round.left
      BY <1>1, <1>5, Zenon DEF CrawlsEnd, RefreshTyped
  <2>2. ASSUME NEW b \in buckets, Timely(b) PROVE Timely(b)'
    <3>1. ~Awaited(b)
        BY <2>1, Zenon DEF Awaited
    <3>2. Excess' = Excess
        BY <2>1, Zenon DEF Excess
    <3> QED
        BY <2>1, <2>2, <3>1, <3>2, Zenon DEF Timely
  <2> QED
      BY <1>2, <2>1, <2>2, Zenon
<1>6. ASSUME NEW e \in due, Republish(e) PROVE RegionIInv'
  <2>1. Touch(LongId[KeyOf[e]]) /\ ids' = ids /\ round' = round
      BY <1>6, Zenon DEF Republish
  <2> QED
      BY <1>1, <2>1, TouchRegion, Zenon
<1>7. CASE RoundEnds
  <2>1. /\ UNCHANGED <<buckets, searched, ids>> /\ ids = {}
        /\ round.pc = "republish" /\ round'.pc = "sleep" /\ round'.left = Hour /\ round.left \in Nat
      BY <1>1, <1>7, Zenon DEF RoundEnds, SleepAgain, RefreshTyped
  <2>2. ASSUME NEW b \in buckets, Timely(b) PROVE Timely(b)'
    <3>1. ~Awaited(b)
        BY <2>1, Zenon DEF Awaited
    <3>2. Excess' = Excess /\ Excess \in Int
        BY <1>1, <2>1, ExcessInt, Zenon DEF Excess
    <3> QED
        BY <2>1, <2>2, <3>1, <3>2, HourFacts DEF Timely
  <2> QED
      BY <1>2, <2>1, <2>2, Zenon
<1>8. CASE Tick
    BY <1>1, <1>8, TickRegion, Zenon
<1>9. ASSUME NEW b \in buckets, Split(b) PROVE RegionIInv'
    BY <1>1, <1>9, SplitRegion, Zenon
<1>10. ASSUME NEW x \in LongIds, Traffic(x) PROVE RegionIInv'
  <2>1. Touch(x) /\ ids' = ids /\ round' = round
      BY <1>10, Zenon DEF Traffic
  <2> QED
      BY <1>1, <2>1, TouchRegion, Zenon
<1>11. ASSUME UNCHANGED <<buckets, searched, ids, round>> PROVE RegionIInv'
    BY <1>2, <1>11, Zenon DEF Timely, Awaited, Excess
<1>12. ASSUME NEW e \in Entries, Store(e) \/ Drop(e) PROVE RegionIInv'
    BY <1>11, <1>12, Zenon DEF Store, Drop
<1>13. CASE UNCHANGED refreshVars
    BY <1>11, <1>13, Zenon DEF refreshVars
<1> QED
    BY <1>3, <1>4, <1>5, <1>6, <1>7, <1>8, <1>9, <1>10, <1>12, <1>13, Zenon DEF RefreshNext, ScheduleRefresh

\* Initially one bucket covers all ids, and its timer has just started.
LEMMA RegionInit == RefreshInit => RegionIInv
<1> SUFFICES ASSUME RefreshInit PROVE RegionIInv
    BY Zenon
<1>1. RefreshTyped
    BY TypedInit, Zenon
<1>2. PICK b : b = [lo |-> 0, hi |-> MaxLong, age |-> 0]
    BY Zenon
<1>3. buckets = {b} /\ b \in Bucket /\ b.age = 0 /\ b.lo = 0 /\ b.hi = MaxLong
    BY <1>2, RefreshConstants, SMTT(40) DEF RefreshInit, Bucket
<1>4. OneBucketEach
    BY <1>3, RefreshConstants DEF OneBucketEach, Covers, LongIds
<1>5. IdsFold
    BY Zenon DEF RefreshInit, IdsFold
<1>6. Excess \in Int /\ Excess <= 0
  <2>1. searched.age = 0 /\ searched.splits = 0
      BY SMTT(40) DEF RefreshInit
  <2>2. 0 - 0 * Quiet = 0
      BY QuietFacts
  <2>3. Excess = 0
      BY <2>1, <2>2, Zenon DEF Excess
  <2> QED
      BY <2>3
<1>7. RegionTimed
    BY <1>3, <1>6, HourFacts, SMTT(40) DEF RefreshInit, RegionTimed, Timely
<1> QED
    BY <1>1, <1>4, <1>5, <1>7, Zenon DEF RegionIInv

\* For any hour, any length of a round and any width of the ids, however
\* lookups, splits and rounds interleave, no region goes without a lookup for
\* longer than two rounds per split (schedule_refresh, get_refresh_ids).
THEOREM RegionsAreLookedUp == RefreshSafety => []RegionsLookedUp
<1>1. RegionIInv /\ [RefreshNext]_refreshVars => RegionIInv'
    BY RegionStep, Zenon
<1>2. ASSUME RegionIInv PROVE RegionsLookedUp
  <2>1. RefreshTyped /\ searched \in Region /\ searched.age \in Nat /\ searched.splits \in Nat /\ searched.of \in LongIds
      BY <1>2, Zenon DEF RegionIInv, RefreshTyped, Region
  <2>2. Excess <= Quiet
      BY <1>2, <2>1, TimelyBound, Zenon DEF RegionIInv, OneBucketEach, RegionTimed
  <2>3. /\ searched.splits * Quiet \in Nat /\ Quiet \in Nat
        /\ (searched.splits + 1) * Quiet = searched.splits * Quiet + Quiet
      BY <2>1, QuietFacts, Zenon
  <2>4. 1 + searched.splits = searched.splits + 1
      BY <2>1
  <2> QED
      BY <2>1, <2>2, <2>3, <2>4 DEF Excess, RegionsLookedUp
<1> QED
    BY RegionInit, <1>1, <1>2, PTL DEF RefreshSafety
=============================================================================
