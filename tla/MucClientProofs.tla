-------------------------- MODULE MucClientProofs --------------------------
(***************************************************************************)
(* The client in the chat room, proved for any sets of peers and nick names*)
(* and any number of stanzas under way, while the connection may be lost   *)
(* at any time and the reconnecter may run in any window: the room object  *)
(* outlives its handlers, the CHECK of Connect fails for the two reasons   *)
(* that are known only, and a message is attributed to nobody but its      *)
(* sender.  The first follows from ControlInv, the second from CalmInv,    *)
(* which says what the flags tell of the three threads as long as neither  *)
(* reason has come up; the last one from AttributionInv, which looks ahead *)
(* through the stanzas under way.                                          *)
(***************************************************************************)
EXTENDS MucClient, FiniteSetTheorems, TLAPS

(***************************************************************************)
(* The inductive invariant                                                 *)
(***************************************************************************)
(* The thread of DisconnectAsync, from the time when it is started until   *)
(* it is joined.  It destroys the room when no handler is running and none *)
(* can be called.                                                          *)
WorkerInv ==
    /\ worker \in {"leave", "disconnect", "reset"} => room
    /\ worker = "reset" => handler = "idle" /\ stream = << >> /\ ~inRoom
    /\ joinable <=> (worker # "none" /\ handler # "assign")
    /\ handler = "start" => worker = "none"
    /\ handler = "assign" => worker \in {"leave", "disconnect"}

(* gloox's thread, and what the room may still send.                       *)
HandlerInv ==
    /\ handler # "idle" => room
    /\ stream # << >> \/ inRoom => online /\ room

ControlInv == WorkerInv /\ HandlerInv

(* As long as no connection has been lost and Connect has not run in the   *)
(* window of DisconnectAsync, the flags tell what the threads are doing:   *)
(* there is a room only if we are online or about to disconnect, and from  *)
(* the time when Connect has joined the thread there is neither.           *)
CalmInv ==
    ~lost /\ ~raced =>
        /\ room => online \/ worker \in {"leave", "disconnect", "reset"}
        /\ worker \in {"leave", "disconnect", "reset"} => disconnecting
        /\ online /\ disconnecting => worker \in {"leave", "disconnect"}
        /\ worker = "reset" => ~online
        /\ handler \in {"join", "start"} => ~disconnecting
        /\ connect = "join" => ~online \/ disconnecting
        /\ connect \in {"clear", "xmpp"} => ~online
        /\ connect \in {"clear", "xmpp", "room"} => ~room /\ worker = "none"
        /\ connect \in {"xmpp", "room"} => ~disconnecting
        /\ connect = "room" => online
        /\ connect # "aborted"

(* A presence changes what a nick name stands for, and to what.            *)
Affects(s, n) ==
    \/ s.type \in {"available", "unavailable", "nickChange"} /\ s.nick = n
    \/ s.type = "nickChange" /\ s.newNick = n

Gives(s, n) ==
    IF s.type = "available" \/ (s.type = "nickChange" /\ s.newNick = n)
    THEN s.jid
    ELSE None

(* The nick name n stands for j; or for nobody, if the nick map was        *)
(* cleared because the connection is about to be cut; or the room has not  *)
(* told us.                                                                *)
Known(nicks, cut, hid, n, j) ==
    nicks[n] = j \/ (cut /\ nicks[n] = None) \/ n \in hid

(* Once the stanzas of st before the i-th have been handled, starting from *)
(* the nick map nicks, the nick name n stands for j.                       *)
Resolves(st, nicks, cut, hid, i, n, j) ==
    /\ \A k \in 1 .. i - 1 :
         Affects(st[k], n) /\ (\A m \in k + 1 .. i - 1 : ~Affects(st[m], n))
            => Gives(st[k], n) = j
    /\ (\A k \in 1 .. i - 1 : ~Affects(st[k], n)) => Known(nicks, cut, hid, n, j)

Cut == worker \in {"leave", "disconnect"}

(* Each message under way will be resolved to its sender, and the nick map *)
(* will agree with the room when all stanzas have been handled.            *)
MessagesInv ==
    \A i \in 1 .. Len(stream) : stream[i].type = "message" =>
        Resolves(stream, nickToJid, Cut, hidden, i, stream[i].nick, stream[i].jid)

MembersInv ==
    inRoom => \A n \in Nicks :
        Resolves(stream, nickToJid, Cut, hidden, Len(stream) + 1, n, members[n])

AttributionInv == MessagesInv /\ MembersInv

ClientInv == TypeOK /\ ControlInv /\ CalmInv /\ AttributionInv

(***************************************************************************)
(* Types                                                                   *)
(***************************************************************************)
(* Finitely many nick names are in use.                                    *)
LEMMA OccupiedFinite == Cardinality(Occupied) \in Nat
  <1>1. IsFiniteSet(Occupied)
    BY NicksAssumption, FS_Subset DEF Occupied
  <1> QED  BY <1>1, FS_CardinalityType

(* What the room sends to a new participant is a sequence of stanzas.      *)
LEMMA AnswerType ==
    ASSUME TypeOK, NEW f \in Bijection(1 .. Cardinality(Occupied), Occupied)
    PROVE  [i \in 1 .. Cardinality(Occupied) |->
              [type |-> "available", nick |-> f[i], jid |-> members[f[i]]]] \in Seq(Stanzas)
  <1> DEFINE c == Cardinality(Occupied)
             S(i) == [type |-> "available", nick |-> f[i], jid |-> members[f[i]]]
  <1>1. c \in Nat
    BY OccupiedFinite
  <1>2. f \in [1 .. c -> Occupied]
    BY DEF Bijection, Injection
  <1>3. ASSUME NEW i \in 1 .. c PROVE S(i) \in Stanzas
    <2>1. f[i] \in Nicks /\ members[f[i]] \in Peers
      BY <1>2, <1>3 DEF Occupied, TypeOK
    <2> QED  BY <2>1 DEF Stanzas, Presence
  <1> HIDE DEF S, c
  <1>4. [i \in 1 .. c |-> S(i)] \in [1 .. c -> Stanzas]
    BY <1>3
  <1>5. [i \in 1 .. c |-> S(i)] \in Seq(Stanzas)
    BY <1>1, <1>4
  <1> QED  BY <1>5 DEF S, c

(* The stream after its first stanza has been taken, and after one more    *)
(* has been sent.                                                          *)
LEMMA TailType ==
    ASSUME NEW S, NEW st \in Seq(S), st # << >>
    PROVE  /\ Tail(st) \in Seq(S) /\ Head(st) \in S /\ Head(st) = st[1]
           /\ Len(st) \in Nat \ {0} /\ Len(Tail(st)) = Len(st) - 1
           /\ \A k \in 1 .. Len(Tail(st)) : Tail(st)[k] = st[k + 1]
  OBVIOUS

LEMMA AppendType ==
    ASSUME NEW S, NEW st \in Seq(S), NEW s \in S
    PROVE  /\ Append(st, s) \in Seq(S)
           /\ Len(st) \in Nat /\ Len(Append(st, s)) = Len(st) + 1
           /\ \A k \in 1 .. Len(st) : Append(st, s)[k] = st[k]
           /\ Append(st, s)[Len(st) + 1] = s
           /\ Append(st, s) # << >>
  OBVIOUS

(* What stanzas of each type are made of.                                  *)
LEMMA StanzaParts ==
    ASSUME NEW s \in Stanzas
    PROVE  /\ s.type \in {"available", "unavailable", "nickChange", "message"}
                => s.nick \in Nicks /\ s.jid \in Peers
           /\ s.type = "nickChange" => s.newNick \in Nicks
  BY DEF Stanzas, Presence, Messages

LEMMA NicksAfterType ==
    ASSUME TypeOK, NEW s \in Stanzas, s.type \in {"available", "unavailable", "nickChange"},
           NEW shown \in BOOLEAN
    PROVE  /\ NicksAfter(s, shown) \in [Nicks -> Peers \cup {None}]
           /\ HiddenAfter(s, shown) \in SUBSET Nicks
  <1>1. s.nick \in Nicks /\ s.jid \in Peers /\ (s.type = "nickChange" => s.newNick \in Nicks)
    BY StanzaParts
  <1>2. nickToJid \in [Nicks -> Peers \cup {None}]
    BY DEF TypeOK
  <1>3. HiddenAfter(s, shown) \in SUBSET Nicks
    BY <1>1 DEF HiddenAfter, NickNamesOf, TypeOK
  <1>4. CASE s.type = "available" /\ shown
    BY <1>1, <1>2, <1>3, <1>4 DEF NicksAfter
  <1>5. CASE s.type = "unavailable"
    BY <1>1, <1>2, <1>3, <1>5 DEF NicksAfter
  <1>6. CASE s.type = "nickChange" /\ shown
    BY <1>1, <1>2, <1>3, <1>6 DEF NicksAfter
  <1>7. CASE s.type \in {"available", "nickChange"} /\ ~shown
    BY <1>1, <1>2, <1>3, <1>7 DEF NicksAfter
  <1> QED  BY <1>4, <1>5, <1>6, <1>7

LEMMA EmptyType == << >> \in Seq(Stanzas)
  OBVIOUS

LEMMA InitType == Init => TypeOK
  BY EmptyType DEF Init, TypeOK, NoNicks

(* Everything that the room sends is a stanza.                             *)
LEMMA SentType ==
    /\ [type |-> "self"] \in Stanzas /\ [type |-> "removed"] \in Stanzas
    /\ [type |-> "error"] \in Stanzas
    /\ \A n \in Nicks, j \in Peers :
         /\ [type |-> "available", nick |-> n, jid |-> j] \in Stanzas
         /\ [type |-> "unavailable", nick |-> n, jid |-> j] \in Stanzas
         /\ [type |-> "message", nick |-> n, jid |-> j] \in Stanzas
         /\ \A k \in Nicks : [type |-> "nickChange", nick |-> n, newNick |-> k, jid |-> j] \in Stanzas
  BY DEF Stanzas, Presence, Messages

(* What a step that receives a stanza, and one in which the room sends     *)
(* one, do to the stream.                                                  *)
LEMMA ReceivesType ==
    ASSUME TypeOK, NEW type, Receives(type)
    PROVE  /\ stream' = Tail(stream) /\ stream' \in Seq(Stanzas)
           /\ stream # << >> /\ Head(stream) \in Stanzas /\ Head(stream).type = type
           /\ handler = "idle" /\ online
  BY TailType DEF Receives, TypeOK

LEMMA SendsType ==
    ASSUME TypeOK, NEW s \in Stanzas, Sends(s)
    PROVE  stream' \in Seq(Stanzas)
  BY AppendType DEF Sends, TypeOK

LEMMA RoomAnswersType ==
    ASSUME TypeOK, RoomAnswers
    PROVE  stream' \in Seq(Stanzas) /\ inRoom' \in BOOLEAN
  <1>1. CASE stream' = <<[type |-> "error"]>> /\ UNCHANGED inRoom
    BY <1>1, SentType DEF TypeOK
  <1>2. CASE /\ \E f \in Bijection(1 .. Cardinality(Occupied), Occupied) :
                  stream' = Append([i \in 1 .. Cardinality(Occupied) |->
                                      [type |-> "available", nick |-> f[i], jid |-> members[f[i]]]],
                                   [type |-> "self"])
             /\ inRoom' = TRUE
    <2>1. PICK f \in Bijection(1 .. Cardinality(Occupied), Occupied) :
                  stream' = Append([i \in 1 .. Cardinality(Occupied) |->
                                      [type |-> "available", nick |-> f[i], jid |-> members[f[i]]]],
                                   [type |-> "self"])
      BY <1>2
    <2>2. PICK st : st = [i \in 1 .. Cardinality(Occupied) |->
                            [type |-> "available", nick |-> f[i], jid |-> members[f[i]]]]
      OBVIOUS
    <2>3. st \in Seq(Stanzas)
      BY <2>2, AnswerType
    <2>4. stream' = Append(st, [type |-> "self"])
      BY <2>1, <2>2
    <2>5. stream' \in Seq(Stanzas)
      BY <2>3, <2>4, SentType, AppendType
    <2> QED  BY <1>2, <2>5
  <1> QED  BY <1>1, <1>2 DEF RoomAnswers

LEMMA PeerChangesType ==
    ASSUME TypeOK, NEW n \in Nicks, NEW j \in Peers, PeerChanges(n, j)
    PROVE  members' \in [Nicks -> Peers \cup {None}] /\ stream' \in Seq(Stanzas)
  <1>0. members \in [Nicks -> Peers \cup {None}]
    BY DEF TypeOK
  <1>1. CASE /\ members' = [members EXCEPT ![n] = j]
             /\ Sends([type |-> "available", nick |-> n, jid |-> j])
    BY <1>0, <1>1, SentType, SendsType
  <1>2. CASE /\ members' = [members EXCEPT ![n] = None]
             /\ Sends([type |-> "unavailable", nick |-> n, jid |-> j])
    BY <1>0, <1>2, SentType, SendsType
  <1>3. ASSUME NEW k \in Nicks,
               members' = [members EXCEPT ![n] = None, ![k] = j],
               Sends([type |-> "nickChange", nick |-> n, newNick |-> k, jid |-> j])
        PROVE  members' \in [Nicks -> Peers \cup {None}] /\ stream' \in Seq(Stanzas)
    BY <1>0, <1>3, SentType, SendsType
  <1> QED  BY <1>1, <1>2, <1>3 DEF PeerChanges

(* All state stays within its types, whatever the threads and the room do. *)
(* That the thread is joinable only if there is one is left to ControlInv. *)
LEMMA TypeStep ==
    ASSUME TypeOK, [Next]_vars, WorkerInv'
    PROVE  TypeOK'
  <1> USE DEF server, threads, history
  <1>0. CASE UNCHANGED vars
    BY <1>0 DEF vars, TypeOK
  <1>1. joinable' => worker' # "none"
    BY DEF WorkerInv
  <1>2. CASE Reconnect
    BY <1>2, <1>1 DEF Reconnect, TypeOK
  <1>3. CASE JoinDisconnecter
    <2>1. raced' \in BOOLEAN
      BY <1>3 DEF JoinDisconnecter, TypeOK
    <2> QED  BY <1>3, <1>1, <2>1 DEF JoinDisconnecter, TypeOK
  <1>4. CASE ClearDisconnecting
    BY <1>4, <1>1 DEF ClearDisconnecting, TypeOK
  <1>5. CASE XmppConnect
    <2>1. online' \in BOOLEAN /\ connect' \in {"room", "idle"}
      BY <1>5 DEF XmppConnect, TypeOK
    <2>2. UNCHANGED <<members, inRoom, stream, room, disconnecting, joinable, joining,
                      nickToJid, handler, worker, lost, raced, hidden>>
      BY <1>5 DEF XmppConnect
    <2> QED  BY <1>1, <2>1, <2>2 DEF TypeOK
  <1>6. CASE JoinRoom
    <2>1. stream' \in Seq(Stanzas) /\ inRoom' \in BOOLEAN
      BY <1>6, RoomAnswersType DEF JoinRoom, TypeOK
    <2>2. lost' \in BOOLEAN /\ raced' \in BOOLEAN
      BY <1>6 DEF JoinRoom, TypeOK
    <2> QED  BY <1>6, <1>1, <2>1, <2>2 DEF JoinRoom, TypeOK, NoNicks
  <1>6a. CASE CheckFails
    BY <1>6a, <1>1, EmptyType DEF CheckFails, TypeOK, NoNicks
  <1>7. CASE JoinFinished
    BY <1>7, <1>1 DEF JoinFinished, TypeOK
  <1>8. CASE handleMUCParticipantPresence
    <2>1. /\ stream' \in Seq(Stanzas) /\ Head(stream) \in Stanzas
          /\ Head(stream).type \in {"available", "unavailable", "nickChange"}
      BY <1>8, ReceivesType DEF handleMUCParticipantPresence
    <2>2. nickToJid' \in [Nicks -> Peers \cup {None}] /\ hidden' \in SUBSET Nicks
      BY <1>8, <2>1, NicksAfterType DEF handleMUCParticipantPresence
    <2> QED  BY <1>8, <1>1, <2>1, <2>2 DEF handleMUCParticipantPresence, TypeOK
  <1>9. CASE handleMUCMessage
    <2>1. stream' \in Seq(Stanzas)
      BY <1>9, ReceivesType DEF handleMUCMessage
    <2> QED  BY <1>9, <1>1, <2>1 DEF handleMUCMessage, TypeOK
  <1>10. CASE handleOwnPresence
    <2>1. stream' \in Seq(Stanzas)
      BY <1>10, ReceivesType DEF handleOwnPresence
    <2>2. joining' \in BOOLEAN
          /\ UNCHANGED <<members, inRoom, online, room, disconnecting, joinable,
                         nickToJid, connect, handler, worker, lost, raced, hidden>>
      BY <1>10 DEF handleOwnPresence
    <2> QED  BY <1>1, <2>1, <2>2 DEF TypeOK
  <1>11. CASE handleMUCError
    <2>1. stream' \in Seq(Stanzas)
      BY <1>11, ReceivesType DEF handleMUCError
    <2> QED  BY <1>11, <1>1, <2>1 DEF handleMUCError, TypeOK
  <1>12. CASE AsyncCheck
    BY <1>12, <1>1 DEF AsyncCheck, TypeOK
  <1>13. CASE AsyncJoin
    BY <1>13, <1>1 DEF AsyncJoin, TypeOK
  <1>14. CASE AsyncStart
    BY <1>14, <1>1 DEF AsyncStart, TypeOK, NoNicks
  <1>15. CASE AsyncAssign
    BY <1>15, <1>1 DEF AsyncAssign, TypeOK
  <1>16. CASE Notify
    BY <1>16, <1>1 DEF Notify, TypeOK
  <1>17. CASE LeaveRoom
    BY <1>17, <1>1 DEF LeaveRoom, TypeOK
  <1>18. CASE XmppDisconnect
    BY <1>18, <1>1, EmptyType DEF XmppDisconnect, TypeOK
  <1>19. CASE ResetRoom
    BY <1>19, <1>1 DEF ResetRoom, TypeOK
  <1>20. CASE FinishDisconnect
    BY <1>20, <1>1 DEF FinishDisconnect, TypeOK
  <1>21. ASSUME NEW n \in Nicks, PeerSpeaks(n) PROVE TypeOK'
    <2>1. members[n] \in Peers
      BY <1>21 DEF PeerSpeaks, TypeOK
    <2>2. stream' \in Seq(Stanzas)
      BY <1>21, <2>1, SentType, SendsType DEF PeerSpeaks
    <2> QED  BY <1>21, <1>1, <2>2 DEF PeerSpeaks, TypeOK
  <1>22. ASSUME NEW n \in Nicks, NEW j \in Peers, PeerChanges(n, j) PROVE TypeOK'
    <2>1. members' \in [Nicks -> Peers \cup {None}] /\ stream' \in Seq(Stanzas)
      BY <1>22, PeerChangesType
    <2> QED  BY <1>22, <1>1, <2>1 DEF PeerChanges, TypeOK
  <1>23. CASE RemovesUs
    <2>1. stream' \in Seq(Stanzas)
      BY <1>23, SentType, SendsType DEF RemovesUs
    <2>2. inRoom' \in BOOLEAN
          /\ UNCHANGED <<members, online, room, disconnecting, joinable, joining,
                         nickToJid, connect, handler, worker, lost, raced, hidden>>
      BY <1>23 DEF RemovesUs
    <2> QED  BY <1>1, <2>1, <2>2 DEF TypeOK
  <1>24. CASE RoomFails
    <2>1. stream' \in Seq(Stanzas)
      BY <1>24, SentType, SendsType DEF RoomFails
    <2> QED  BY <1>24, <1>1, <2>1 DEF RoomFails, TypeOK
  <1>25. CASE LoseConnection
    <2>1. lost' \in BOOLEAN /\ online' \in BOOLEAN /\ inRoom' \in BOOLEAN
      BY <1>25 DEF LoseConnection, TypeOK
    <2>2. stream' \in Seq(Stanzas)
      BY <1>25, EmptyType DEF LoseConnection
    <2>3. UNCHANGED <<members, room, disconnecting, joinable, joining, nickToJid,
                      connect, handler, worker, raced, hidden>>
      BY <1>25 DEF LoseConnection
    <2> QED  BY <1>1, <2>1, <2>2, <2>3 DEF TypeOK
  <1> QED
    BY <1>0, <1>2, <1>3, <1>4, <1>5, <1>6, <1>6a, <1>7, <1>8, <1>9, <1>10, <1>11, <1>12,
       <1>13, <1>14, <1>15, <1>16, <1>17, <1>18, <1>19, <1>20, <1>21, <1>22,
       <1>23, <1>24, <1>25
    DEF Next, ConnectStep, HandlerStep, WorkerStep, RoomStep

(***************************************************************************)
(* Control                                                                 *)
(***************************************************************************)
LEMMA InitControl == Init => ControlInv /\ CalmInv
  BY DEF Init, ControlInv, WorkerInv, HandlerInv, CalmInv

LEMMA ReceivesControl ==
    ASSUME TypeOK, ControlInv, NEW type, Receives(type)
    PROVE  online /\ room /\ handler = "idle" /\ worker # "reset"
  BY DEF Receives, ControlInv, HandlerInv, WorkerInv

LEMMA SendsControl ==
    ASSUME ControlInv, NEW s, Sends(s)
    PROVE  stream' # << >> => online /\ room /\ worker # "reset"
  BY DEF Sends, ControlInv, HandlerInv, WorkerInv

(* Whatever the threads do, the room is there as long as a handler is      *)
(* running or can be called.                                               *)
LEMMA ControlStep ==
    ASSUME TypeOK, ControlInv, [Next]_vars
    PROVE  ControlInv'
  <1> USE DEF server, threads, history, ControlInv, WorkerInv, HandlerInv
  <1>0. CASE UNCHANGED vars
    BY <1>0 DEF vars
  <1>2. CASE Reconnect
    BY <1>2 DEF Reconnect, TypeOK, IsConnected
  <1>3. CASE JoinDisconnecter
    BY <1>3 DEF JoinDisconnecter, TypeOK
  <1>4. CASE ClearDisconnecting
    BY <1>4 DEF ClearDisconnecting, TypeOK
  <1>5. CASE XmppConnect
    BY <1>5 DEF XmppConnect, TypeOK
  <1>6. CASE JoinRoom
    BY <1>6 DEF JoinRoom, TypeOK
  <1>6a. CASE CheckFails
    BY <1>6a DEF CheckFails, TypeOK
  <1>7. CASE JoinFinished
    BY <1>7 DEF JoinFinished, TypeOK
  <1>8. CASE handleMUCParticipantPresence
    BY <1>8, ReceivesControl DEF handleMUCParticipantPresence
  <1>9. CASE handleMUCMessage
    BY <1>9, ReceivesControl DEF handleMUCMessage
  <1>10. CASE handleOwnPresence
    BY <1>10, ReceivesControl DEF handleOwnPresence
  <1>11. CASE handleMUCError
    BY <1>11, ReceivesControl DEF handleMUCError
  <1>12. CASE AsyncCheck
    BY <1>12 DEF AsyncCheck, TypeOK
  <1>13. CASE AsyncJoin
    BY <1>13 DEF AsyncJoin, TypeOK
  <1>14. CASE AsyncStart
    BY <1>14 DEF AsyncStart, TypeOK
  <1>15. CASE AsyncAssign
    BY <1>15 DEF AsyncAssign, TypeOK
  <1>16. CASE Notify
    BY <1>16 DEF Notify, TypeOK
  <1>17. CASE LeaveRoom
    BY <1>17 DEF LeaveRoom, TypeOK
  <1>18. CASE XmppDisconnect
    BY <1>18 DEF XmppDisconnect, TypeOK
  <1>19. CASE ResetRoom
    BY <1>19 DEF ResetRoom, TypeOK
  <1>20. CASE FinishDisconnect
    BY <1>20 DEF FinishDisconnect, TypeOK
  <1>21. ASSUME NEW n \in Nicks, PeerSpeaks(n) PROVE ControlInv'
    BY <1>21, SendsControl DEF PeerSpeaks
  <1>22. ASSUME NEW n \in Nicks, NEW j \in Peers, PeerChanges(n, j) PROVE ControlInv'
    BY <1>22, SendsControl DEF PeerChanges
  <1>23. CASE RemovesUs
    BY <1>23, SendsControl DEF RemovesUs
  <1>24. CASE RoomFails
    BY <1>24, SendsControl DEF RoomFails
  <1>25. CASE LoseConnection
    BY <1>25 DEF LoseConnection, TypeOK
  <1> QED
    BY <1>0, <1>2, <1>3, <1>4, <1>5, <1>6, <1>6a, <1>7, <1>8, <1>9, <1>10, <1>11, <1>12,
       <1>13, <1>14, <1>15, <1>16, <1>17, <1>18, <1>19, <1>20, <1>21, <1>22,
       <1>23, <1>24, <1>25
    DEF Next, ConnectStep, HandlerStep, WorkerStep, RoomStep

(* As long as no connection is lost and Connect does not run in the window *)
(* of DisconnectAsync, the flags tell what the threads are doing; and they *)
(* do again once the room is joined.                                       *)
LEMMA CalmStep ==
    ASSUME TypeOK, ControlInv, CalmInv, [Next]_vars
    PROVE  CalmInv'
  <1> USE DEF server, threads, history, ControlInv, WorkerInv, HandlerInv, CalmInv
  <1>0. CASE UNCHANGED vars
    BY <1>0 DEF vars
  <1>2. CASE Reconnect
    BY <1>2 DEF Reconnect, TypeOK, IsConnected
  <1>3. CASE JoinDisconnecter
    BY <1>3 DEF JoinDisconnecter, TypeOK
  <1>4. CASE ClearDisconnecting
    BY <1>4 DEF ClearDisconnecting, TypeOK
  <1>5. CASE XmppConnect
    BY <1>5 DEF XmppConnect, TypeOK
  <1>6. CASE JoinRoom
    BY <1>6 DEF JoinRoom, TypeOK, IsConnected
  <1>6a. CASE CheckFails
    BY <1>6a DEF CheckFails, TypeOK
  <1>7. CASE JoinFinished
    BY <1>7 DEF JoinFinished, TypeOK
  <1>8. CASE handleMUCParticipantPresence
    BY <1>8, ReceivesControl DEF handleMUCParticipantPresence
  <1>9. CASE handleMUCMessage
    BY <1>9, ReceivesControl DEF handleMUCMessage
  <1>10. CASE handleOwnPresence
    BY <1>10, ReceivesControl DEF handleOwnPresence
  <1>11. CASE handleMUCError
    BY <1>11, ReceivesControl DEF handleMUCError
  <1>12. CASE AsyncCheck
    BY <1>12 DEF AsyncCheck, TypeOK
  <1>13. CASE AsyncJoin
    BY <1>13 DEF AsyncJoin, TypeOK
  <1>14. CASE AsyncStart
    BY <1>14 DEF AsyncStart, TypeOK
  <1>15. CASE AsyncAssign
    BY <1>15 DEF AsyncAssign, TypeOK
  <1>16. CASE Notify
    BY <1>16 DEF Notify, TypeOK
  <1>17. CASE LeaveRoom
    BY <1>17 DEF LeaveRoom, TypeOK
  <1>18. CASE XmppDisconnect
    BY <1>18 DEF XmppDisconnect, TypeOK
  <1>19. CASE ResetRoom
    BY <1>19 DEF ResetRoom, TypeOK
  <1>20. CASE FinishDisconnect
    BY <1>20 DEF FinishDisconnect, TypeOK
  <1>21. ASSUME NEW n \in Nicks, PeerSpeaks(n) PROVE CalmInv'
    BY <1>21, SendsControl DEF PeerSpeaks
  <1>22. ASSUME NEW n \in Nicks, NEW j \in Peers, PeerChanges(n, j) PROVE CalmInv'
    BY <1>22, SendsControl DEF PeerChanges
  <1>23. CASE RemovesUs
    BY <1>23, SendsControl DEF RemovesUs
  <1>24. CASE RoomFails
    BY <1>24, SendsControl DEF RoomFails
  <1>25. CASE LoseConnection
    BY <1>25 DEF LoseConnection, TypeOK
  <1> QED
    BY <1>0, <1>2, <1>3, <1>4, <1>5, <1>6, <1>6a, <1>7, <1>8, <1>9, <1>10, <1>11, <1>12,
       <1>13, <1>14, <1>15, <1>16, <1>17, <1>18, <1>19, <1>20, <1>21, <1>22,
       <1>23, <1>24, <1>25
    DEF Next, ConnectStep, HandlerStep, WorkerStep, RoomStep

(***************************************************************************)
(* Attribution: what handling, sending and losing do to Resolves           *)
(***************************************************************************)
(* Resolves looks only at the stanzas before the i-th.                     *)
LEMMA ResolvesPrefix ==
    ASSUME NEW st, NEW st2, NEW nicks, NEW cut, NEW hid, NEW i \in Nat, NEW n, NEW j,
           \A k \in 1 .. i - 1 : st2[k] = st[k],
           Resolves(st, nicks, cut, hid, i, n, j)
    PROVE  Resolves(st2, nicks, cut, hid, i, n, j)
  <1>1. \A k \in 1 .. i - 1 : (k + 1) .. (i - 1) \subseteq 1 .. i - 1
    OBVIOUS
  <1>2. ASSUME NEW k \in 1 .. i - 1, Affects(st2[k], n),
               \A m \in k + 1 .. i - 1 : ~Affects(st2[m], n)
        PROVE  Gives(st2[k], n) = j
    <2>1. \A m \in k + 1 .. i - 1 : ~Affects(st[m], n)
      BY <1>1, <1>2
    <2>2. st2[k] = st[k]
      OBVIOUS
    <2> QED  BY <1>2, <2>1, <2>2 DEF Resolves
  <1>3. ASSUME \A k \in 1 .. i - 1 : ~Affects(st2[k], n)
        PROVE  Known(nicks, cut, hid, n, j)
    <2>1. \A k \in 1 .. i - 1 : ~Affects(st[k], n)
      BY <1>3
    <2> QED  BY <2>1 DEF Resolves
  <1> QED  BY <1>2, <1>3 DEF Resolves

(* One more stanza that says nothing of n.                                 *)
LEMMA ResolvesSkip ==
    ASSUME NEW st, NEW nicks, NEW cut, NEW hid, NEW i \in Nat \ {0}, NEW n, NEW j,
           ~Affects(st[i], n),
           Resolves(st, nicks, cut, hid, i, n, j)
    PROVE  Resolves(st, nicks, cut, hid, i + 1, n, j)
  <1>0. 1 .. (i + 1) - 1 = (1 .. i - 1) \cup {i}
    OBVIOUS
  <1>1. ASSUME NEW k \in 1 .. (i + 1) - 1, Affects(st[k], n),
               \A m \in k + 1 .. (i + 1) - 1 : ~Affects(st[m], n)
        PROVE  Gives(st[k], n) = j
    <2>1. k \in 1 .. i - 1
      BY <1>0, <1>1
    <2>2. \A m \in k + 1 .. i - 1 : m \in k + 1 .. (i + 1) - 1
      BY <2>1
    <2>3. \A m \in k + 1 .. i - 1 : ~Affects(st[m], n)
      BY <1>1, <2>2
    <2> QED  BY <1>1, <2>1, <2>3 DEF Resolves
  <1>2. ASSUME \A k \in 1 .. (i + 1) - 1 : ~Affects(st[k], n)
        PROVE  Known(nicks, cut, hid, n, j)
    <2>1. \A k \in 1 .. i - 1 : ~Affects(st[k], n)
      BY <1>0, <1>2
    <2> QED  BY <2>1 DEF Resolves
  <1> QED  BY <1>1, <1>2 DEF Resolves

(* One more presence that says what n stands for.                          *)
LEMMA ResolvesLast ==
    ASSUME NEW st, NEW nicks, NEW cut, NEW hid, NEW i \in Nat \ {0}, NEW n, NEW j,
           Affects(st[i], n), Gives(st[i], n) = j
    PROVE  Resolves(st, nicks, cut, hid, i + 1, n, j)
  <1>1. ASSUME NEW k \in 1 .. (i + 1) - 1, Affects(st[k], n),
               \A m \in k + 1 .. (i + 1) - 1 : ~Affects(st[m], n)
        PROVE  Gives(st[k], n) = j
    <2>1. ~ (k < i)
      <3> SUFFICES ASSUME k < i PROVE FALSE
        OBVIOUS
      <3>1. i \in k + 1 .. (i + 1) - 1
        OBVIOUS
      <3> QED  BY <1>1, <3>1
    <2>2. k = i
      BY <2>1
    <2> QED  BY <2>2
  <1>2. i \in 1 .. (i + 1) - 1
    OBVIOUS
  <1> QED  BY <1>1, <1>2 DEF Resolves

(* The first stanza has been handled: nicks2 is the new nick map.          *)
LEMMA ResolvesTail ==
    ASSUME NEW st \in Seq(Stanzas), st # << >>, NEW nicks, NEW nicks2, NEW cut, NEW hid, NEW hid2,
           NEW i \in 1 .. Len(Tail(st)) + 1, NEW n, NEW j,
           Affects(Head(st), n) => nicks2[n] = Gives(Head(st), n) \/ n \in hid2,
           ~Affects(Head(st), n) => nicks2[n] = nicks[n] /\ (n \in hid => n \in hid2),
           Resolves(st, nicks, cut, hid, i + 1, n, j)
    PROVE  Resolves(Tail(st), nicks2, cut, hid2, i, n, j)
  <1> DEFINE t == Tail(st)
  <1>0. /\ Head(st) = st[1] /\ Len(t) \in Nat
        /\ \A k \in 1 .. Len(t) : t[k] = st[k + 1]
        /\ i \in 1 .. Len(t) + 1
    BY TailType
  <1> HIDE DEF t
  <1>1. \A k \in 1 .. i - 1 : t[k] = st[k + 1] /\ k + 1 \in 1 .. (i + 1) - 1
    BY <1>0
  <1>2. ASSUME NEW k \in 1 .. i - 1, Affects(t[k], n),
               \A m \in k + 1 .. i - 1 : ~Affects(t[m], n)
        PROVE  Gives(t[k], n) = j
    <2>1. ASSUME NEW m \in (k + 1) + 1 .. (i + 1) - 1 PROVE ~Affects(st[m], n)
      <3>1. m - 1 \in k + 1 .. i - 1 /\ m - 1 \in 1 .. i - 1 /\ (m - 1) + 1 = m
        OBVIOUS
      <3>2. t[m - 1] = st[m]
        BY <1>1, <3>1
      <3> QED  BY <1>2, <3>1, <3>2
    <2>2. t[k] = st[k + 1] /\ k + 1 \in 1 .. (i + 1) - 1
      BY <1>1
    <2> QED  BY <1>2, <2>1, <2>2 DEF Resolves
  <1>3. ASSUME \A k \in 1 .. i - 1 : ~Affects(t[k], n)
        PROVE  Known(nicks2, cut, hid2, n, j)
    <2>1. ASSUME NEW m \in 2 .. (i + 1) - 1 PROVE ~Affects(st[m], n)
      <3>1. m - 1 \in 1 .. i - 1 /\ (m - 1) + 1 = m
        OBVIOUS
      <3> QED  BY <1>1, <1>3, <3>1
    <2>2. 1 \in 1 .. (i + 1) - 1 /\ 1 + 1 = 2
          /\ \A m \in 1 .. (i + 1) - 1 : m = 1 \/ m \in 2 .. (i + 1) - 1
      BY <1>0
    <2>3. CASE Affects(Head(st), n)
      <3>1. Gives(st[1], n) = j
        BY <1>0, <2>1, <2>2, <2>3 DEF Resolves
      <3> QED  BY <1>0, <2>3, <3>1 DEF Known
    <2>4. CASE ~Affects(Head(st), n)
      <3>1. \A m \in 1 .. (i + 1) - 1 : ~Affects(st[m], n)
        BY <1>0, <2>1, <2>2, <2>4
      <3>2. Known(nicks, cut, hid, n, j)
        BY <3>1 DEF Resolves
      <3> QED  BY <2>4, <3>2 DEF Known
    <2> QED  BY <2>3, <2>4
  <1>4. Resolves(t, nicks2, cut, hid2, i, n, j)
    BY <1>2, <1>3 DEF Resolves
  <1> QED  BY <1>4 DEF t

(* The nick map is cleared because the connection is about to be cut.      *)
LEMMA ResolvesLost ==
    ASSUME NEW st, NEW nicks, NEW nicks2, NEW cut, NEW hid, NEW hid2, NEW i, NEW n, NEW j,
           nicks2[n] = None, Resolves(st, nicks, cut, hid, i, n, j)
    PROVE  Resolves(st, nicks2, TRUE, hid2, i, n, j)
  BY DEF Resolves, Known

(* What a presence gives a nick name is in the nick map, or hidden.        *)
LEMMA NicksAfterGives ==
    ASSUME TypeOK, NEW s \in Stanzas, s.type \in {"available", "unavailable", "nickChange"},
           NEW shown \in BOOLEAN, NEW n \in Nicks
    PROVE  /\ Affects(s, n) => \/ NicksAfter(s, shown)[n] = Gives(s, n)
                               \/ n \in HiddenAfter(s, shown)
           /\ ~Affects(s, n) => /\ NicksAfter(s, shown)[n] = nickToJid[n]
                                /\ n \in hidden => n \in HiddenAfter(s, shown)
  <1>1. s.nick \in Nicks /\ s.jid \in Peers /\ (s.type = "nickChange" => s.newNick \in Nicks)
    BY StanzaParts
  <1>2. nickToJid \in [Nicks -> Peers \cup {None}]
    BY DEF TypeOK
  <1> USE DEF NicksAfter, HiddenAfter, NickNamesOf, Affects, Gives
  <1>3. CASE s.type = "available" /\ shown
    BY <1>1, <1>2, <1>3
  <1>4. CASE s.type = "unavailable"
    BY <1>1, <1>2, <1>4
  <1>5. CASE s.type = "nickChange" /\ shown
    BY <1>1, <1>2, <1>5
  <1>6. CASE s.type \in {"available", "nickChange"} /\ ~shown
    BY <1>1, <1>2, <1>6
  <1> QED  BY <1>3, <1>4, <1>5, <1>6

(* A handler has taken the first stanza.                                   *)
LEMMA AttributionHandled ==
    ASSUME TypeOK, AttributionInv, stream # << >>, stream' = Tail(stream),
           \A n \in Nicks :
              /\ Affects(Head(stream), n) =>
                    nickToJid'[n] = Gives(Head(stream), n) \/ n \in hidden'
              /\ ~Affects(Head(stream), n) =>
                    nickToJid'[n] = nickToJid[n] /\ (n \in hidden => n \in hidden'),
           Cut' = Cut, members' = members, inRoom' = inRoom
    PROVE  AttributionInv'
  <1>1. PICK st : st = stream
    OBVIOUS
  <1>2. PICK t : t = Tail(st)
    OBVIOUS
  <1>3. /\ st \in Seq(Stanzas) /\ st # << >> /\ t \in Seq(Stanzas)
        /\ Len(t) \in Nat /\ Len(st) = Len(t) + 1
        /\ \A k \in 1 .. Len(t) : t[k] = st[k + 1] /\ t[k] \in Stanzas
        /\ stream' = t
    BY <1>1, <1>2, TailType DEF TypeOK
  <1>4. ASSUME NEW i \in 1 .. Len(t), t[i].type = "message"
        PROVE  Resolves(t, nickToJid', Cut', hidden', i, t[i].nick, t[i].jid)
    <2>1. t[i] = st[i + 1] /\ t[i] \in Stanzas /\ i + 1 \in 1 .. Len(st)
          /\ i \in 1 .. Len(t) + 1
      BY <1>3
    <2>2. PICK n, j : n = t[i].nick /\ j = t[i].jid
      OBVIOUS
    <2>3. n \in Nicks
      BY <1>4, <2>1, <2>2, StanzaParts
    <2>4. Resolves(st, nickToJid, Cut, hidden, i + 1, n, j)
      BY <1>1, <1>4, <2>1, <2>2 DEF AttributionInv, MessagesInv
    <2>5. Resolves(t, nickToJid', Cut, hidden', i, n, j)
      BY <1>1, <1>2, <1>3, <2>1, <2>3, <2>4, ResolvesTail
    <2> QED  BY <2>2, <2>5
  <1>5. ASSUME inRoom, NEW n \in Nicks
        PROVE  Resolves(t, nickToJid', Cut', hidden', Len(t) + 1, n, members'[n])
    <2>1. Resolves(st, nickToJid, Cut, hidden, (Len(t) + 1) + 1, n, members[n])
      BY <1>1, <1>3, <1>5 DEF AttributionInv, MembersInv
    <2>2. Len(t) + 1 \in 1 .. Len(t) + 1
      BY <1>3
    <2>3. Resolves(t, nickToJid', Cut, hidden', Len(t) + 1, n, members[n])
      BY <1>1, <1>2, <1>3, <2>1, <2>2, ResolvesTail
    <2> QED  BY <2>3
  <1> QED  BY <1>3, <1>4, <1>5 DEF AttributionInv, MessagesInv, MembersInv

(* The room has sent a stanza to us.                                       *)
LEMMA AttributionSent ==
    ASSUME TypeOK, AttributionInv, inRoom, NEW s \in Stanzas,
           stream' = Append(stream, s),
           s.type = "message" => s.jid = members[s.nick],
           \A n \in Nicks : members'[n] = IF Affects(s, n) THEN Gives(s, n) ELSE members[n],
           nickToJid' = nickToJid, Cut' = Cut, hidden' = hidden
    PROVE  AttributionInv'
  <1>1. PICK st : st = stream
    OBVIOUS
  <1>2. PICK a : a = Append(st, s)
    OBVIOUS
  <1>3. PICK len : len = Len(st)
    OBVIOUS
  <1>4. /\ st \in Seq(Stanzas) /\ len \in Nat /\ Len(a) = len + 1
        /\ \A k \in 1 .. len : a[k] = st[k]
        /\ a[len + 1] = s
        /\ stream' = a
    BY <1>1, <1>2, <1>3, AppendType DEF TypeOK
  <1>5. ASSUME NEW n \in Nicks
        PROVE  Resolves(a, nickToJid, Cut, hidden, len + 1, n, members[n])
    <2>1. Resolves(st, nickToJid, Cut, hidden, len + 1, n, members[n])
      BY <1>1, <1>3 DEF AttributionInv, MembersInv
    <2>2. len + 1 \in Nat /\ \A k \in 1 .. (len + 1) - 1 : a[k] = st[k]
      BY <1>4
    <2> QED  BY <2>1, <2>2, ResolvesPrefix
  <1>6. ASSUME NEW i \in 1 .. len + 1, a[i].type = "message"
        PROVE  Resolves(a, nickToJid, Cut, hidden, i, a[i].nick, a[i].jid)
    <2>1. CASE i = len + 1
      <3>1. s.nick \in Nicks /\ s.jid = members[s.nick]
        BY <1>4, <1>6, <2>1, StanzaParts
      <3> QED  BY <1>4, <1>5, <2>1, <3>1
    <2>2. CASE i # len + 1
      <3>1. i \in 1 .. len /\ i \in Nat /\ a[i] = st[i]
            /\ \A k \in 1 .. i - 1 : k \in 1 .. len
        BY <1>4, <2>2
      <3>2. PICK n, j : n = a[i].nick /\ j = a[i].jid
        OBVIOUS
      <3>3. Resolves(st, nickToJid, Cut, hidden, i, n, j)
        BY <1>1, <1>3, <1>6, <3>1, <3>2 DEF AttributionInv, MessagesInv
      <3>4. \A k \in 1 .. i - 1 : a[k] = st[k]
        BY <1>4, <3>1
      <3>5. Resolves(a, nickToJid, Cut, hidden, i, n, j)
        BY <3>1, <3>3, <3>4, ResolvesPrefix
      <3> QED  BY <3>2, <3>5
    <2> QED  BY <2>1, <2>2
  <1>7. ASSUME NEW n \in Nicks
        PROVE  Resolves(a, nickToJid, Cut, hidden, (len + 1) + 1, n, members'[n])
    <2>1. len + 1 \in Nat \ {0}
      BY <1>4
    <2>2. CASE Affects(s, n)
      <3>1. members'[n] = Gives(s, n)
        BY <2>2
      <3>2. PICK j : j = members'[n]
        OBVIOUS
      <3>3. Resolves(a, nickToJid, Cut, hidden, (len + 1) + 1, n, j)
        BY <1>4, <2>1, <2>2, <3>1, <3>2, ResolvesLast
      <3> QED  BY <3>2, <3>3
    <2>3. CASE ~Affects(s, n)
      <3>1. members'[n] = members[n]
        BY <2>3
      <3>2. Resolves(a, nickToJid, Cut, hidden, (len + 1) + 1, n, members[n])
        BY <1>4, <1>5, <2>1, <2>3, ResolvesSkip
      <3> QED  BY <3>1, <3>2
    <2> QED  BY <2>2, <2>3
  <1> QED  BY <1>4, <1>6, <1>7 DEF AttributionInv, MessagesInv, MembersInv

(* Nothing is under way, and we are not in the room.                       *)
LEMMA AttributionNothing ==
    ASSUME stream' = << >>, ~inRoom'
    PROVE  AttributionInv'
  <1>1. Len(stream') = 0
    OBVIOUS
  <1> QED  BY <1>1 DEF AttributionInv, MessagesInv, MembersInv

(* Neither the stream nor what it is resolved with changes, and at most we *)
(* leave the room.                                                         *)
LEMMA AttributionSame ==
    ASSUME AttributionInv, stream' = stream, nickToJid' = nickToJid,
           Cut' = Cut, hidden' = hidden,
           inRoom' => inRoom /\ members' = members
    PROVE  AttributionInv'
  BY DEF AttributionInv, MessagesInv, MembersInv

(* The presences of all who are in the room make the nick map agree with   *)
(* it, in whatever order they come.                                        *)
LEMMA AttributionJoined ==
    ASSUME TypeOK, nickToJid' = NoNicks, RoomAnswers, members' = members, ~inRoom
    PROVE  AttributionInv'
  <1>1. CASE stream' = <<[type |-> "error"]>> /\ UNCHANGED inRoom
    <2>1. Len(stream') = 1 /\ stream'[1].type = "error"
      BY <1>1
    <2>2. \A i \in 1 .. 1 : i = 1
      OBVIOUS
    <2> QED  BY <1>1, <2>1, <2>2 DEF AttributionInv, MessagesInv, MembersInv
  <1>2. CASE /\ \E f \in Bijection(1 .. Cardinality(Occupied), Occupied) :
                  stream' = Append([i \in 1 .. Cardinality(Occupied) |->
                                      [type |-> "available", nick |-> f[i], jid |-> members[f[i]]]],
                                   [type |-> "self"])
             /\ inRoom' = TRUE
    <2>1. PICK f \in Bijection(1 .. Cardinality(Occupied), Occupied) :
                  stream' = Append([i \in 1 .. Cardinality(Occupied) |->
                                      [type |-> "available", nick |-> f[i], jid |-> members[f[i]]]],
                                   [type |-> "self"])
      BY <1>2
    <2>2. PICK c : c = Cardinality(Occupied)
      OBVIOUS
    <2>3. PICK st : st = [i \in 1 .. c |->
                            [type |-> "available", nick |-> f[i], jid |-> members[f[i]]]]
      OBVIOUS
    <2>4. PICK a : a = Append(st, [type |-> "self"])
      OBVIOUS
    <2>5. stream' = a
      BY <2>1, <2>2, <2>3, <2>4
    <2>6. st \in Seq(Stanzas) /\ c \in Nat
      BY <2>2, <2>3, AnswerType, OccupiedFinite
    <2>7. /\ \A i \in 1 .. c : f[i] \in Occupied
          /\ \A n \in Occupied : \E i \in 1 .. c : f[i] = n
      BY <2>2 DEF Bijection, Injection, Surjection
    <2>8. \A i \in 1 .. c : st[i].type = "available" /\ st[i].nick = f[i] /\ st[i].jid = members[f[i]]
      BY <2>3
    <2>9. Len(st) = c
      BY <2>3, <2>6
    <2>10. /\ Len(a) = c + 1 /\ a[c + 1].type = "self"
           /\ \A i \in 1 .. c : a[i].type = "available" /\ a[i].nick = f[i] /\ a[i].jid = members[f[i]]
      BY <2>4, <2>6, <2>8, <2>9, AppendType, SentType
    <2>11. \A i \in 1 .. c + 1 : i \in 1 .. c \/ i = c + 1
      BY <2>6
    <2>12. \A i \in 1 .. c + 1 : a[i].type # "message"
      BY <2>10, <2>11
    <2>13. ASSUME NEW n \in Nicks
           PROVE  Resolves(a, nickToJid', Cut', hidden', (c + 1) + 1, n, members[n])
      <3>1. \A i \in 1 .. ((c + 1) + 1) - 1 : i \in 1 .. c + 1
        BY <2>6
      <3>2. ASSUME NEW i \in 1 .. ((c + 1) + 1) - 1, Affects(a[i], n)
            PROVE  Gives(a[i], n) = members[n]
        BY <2>10, <2>11, <3>1, <3>2 DEF Affects, Gives
      <3>3. ASSUME \A i \in 1 .. ((c + 1) + 1) - 1 : ~Affects(a[i], n)
            PROVE  nickToJid'[n] = members[n]
        <4>1. \A i \in 1 .. c : i \in 1 .. ((c + 1) + 1) - 1
          BY <2>6
        <4>2. \A i \in 1 .. c : f[i] # n
          BY <2>10, <3>3, <4>1 DEF Affects
        <4>3. n \notin Occupied
          BY <2>7, <4>2
        <4> QED  BY <4>3 DEF Occupied, NoNicks
      <3> QED  BY <3>2, <3>3 DEF Resolves, Known
    <2> QED  BY <2>5, <2>10, <2>12, <2>13 DEF AttributionInv, MessagesInv, MembersInv
  <1> QED  BY <1>1, <1>2 DEF RoomAnswers

LEMMA AttributionPeers ==
    ASSUME TypeOK, AttributionInv, NEW n \in Nicks, NEW j \in Peers, PeerChanges(n, j)
    PROVE  AttributionInv'
  <1> USE DEF threads
  <1>0. /\ members \in [Nicks -> Peers \cup {None}]
        /\ nickToJid' = nickToJid /\ Cut' = Cut /\ hidden' = hidden /\ inRoom' = inRoom
    BY DEF TypeOK, PeerChanges, history, Cut
  <1>1. CASE ~inRoom
    <2>1. stream' = stream
      BY <1>1 DEF PeerChanges, Sends
    <2> QED  BY <1>0, <1>1, <2>1, AttributionSame
  <1>2. CASE inRoom
    <2>1. ASSUME members' = [members EXCEPT ![n] = j],
                 Sends([type |-> "available", nick |-> n, jid |-> j])
          PROVE  AttributionInv'
      <3>1. PICK s : s = [type |-> "available", nick |-> n, jid |-> j]
        OBVIOUS
      <3>2. s \in Stanzas /\ s.type # "message" /\ stream' = Append(stream, s)
        BY <1>2, <2>1, <3>1, SentType DEF Sends
      <3>3. \A m \in Nicks : members'[m] = IF Affects(s, m) THEN Gives(s, m) ELSE members[m]
        BY <1>0, <2>1, <3>1 DEF Affects, Gives
      <3> QED  BY <1>0, <1>2, <3>2, <3>3, AttributionSent
    <2>2. ASSUME members' = [members EXCEPT ![n] = None],
                 Sends([type |-> "unavailable", nick |-> n, jid |-> j])
          PROVE  AttributionInv'
      <3>1. PICK s : s = [type |-> "unavailable", nick |-> n, jid |-> j]
        OBVIOUS
      <3>2. s \in Stanzas /\ s.type # "message" /\ stream' = Append(stream, s)
        BY <1>2, <2>2, <3>1, SentType DEF Sends
      <3>3. \A m \in Nicks : members'[m] = IF Affects(s, m) THEN Gives(s, m) ELSE members[m]
        BY <1>0, <2>2, <3>1 DEF Affects, Gives
      <3> QED  BY <1>0, <1>2, <3>2, <3>3, AttributionSent
    <2>3. ASSUME NEW k \in Nicks, members' = [members EXCEPT ![n] = None, ![k] = j],
                 Sends([type |-> "nickChange", nick |-> n, newNick |-> k, jid |-> j])
          PROVE  AttributionInv'
      <3>1. PICK s : s = [type |-> "nickChange", nick |-> n, newNick |-> k, jid |-> j]
        OBVIOUS
      <3>2. s \in Stanzas /\ s.type # "message" /\ stream' = Append(stream, s)
        BY <1>2, <2>3, <3>1, SentType DEF Sends
      <3>3. \A m \in Nicks : members'[m] = IF Affects(s, m) THEN Gives(s, m) ELSE members[m]
        BY <1>0, <2>3, <3>1 DEF Affects, Gives
      <3> QED  BY <1>0, <1>2, <3>2, <3>3, AttributionSent
    <2> QED  BY <2>1, <2>2, <2>3 DEF PeerChanges
  <1> QED  BY <1>1, <1>2

(* Stanzas that are neither messages nor presences of others.              *)
LEMMA AttributionRoomSays ==
    ASSUME TypeOK, AttributionInv, inRoom, NEW s \in Stanzas, Sends(s),
           s.type \in {"message", "removed", "error"},
           s.type = "message" => s.jid = members[s.nick],
           members' = members, nickToJid' = nickToJid, Cut' = Cut, hidden' = hidden
    PROVE  AttributionInv'
  <1>1. stream' = Append(stream, s)
    BY DEF Sends
  <1>2. \A n \in Nicks : ~Affects(s, n)
    BY DEF Affects
  <1> QED  BY <1>1, <1>2, AttributionSent

LEMMA AttributionReceives ==
    ASSUME TypeOK, AttributionInv, NEW type \in {"message", "self", "removed", "error"},
           Receives(type), members' = members, inRoom' = inRoom,
           nickToJid' = nickToJid, Cut' = Cut, hidden' = hidden
    PROVE  AttributionInv'
  <1>1. stream # << >> /\ stream' = Tail(stream) /\ Head(stream).type = type
    BY DEF Receives
  <1>2. \A n \in Nicks : ~Affects(Head(stream), n)
    BY <1>1 DEF Affects
  <1> QED  BY <1>1, <1>2, AttributionHandled

(* Every step keeps the messages that are under way, and those still to    *)
(* come, attributed to their senders.                                      *)
LEMMA AttributionStep ==
    ASSUME TypeOK, ControlInv, AttributionInv, [Next]_vars
    PROVE  AttributionInv'
  <1> USE DEF server, threads
  <1>0. CASE UNCHANGED vars
    BY <1>0, AttributionSame DEF vars, Cut
  <1>1. ASSUME ~room, UNCHANGED <<stream, inRoom>> PROVE AttributionInv'
    <2>1. stream' = << >> /\ ~inRoom'
      BY <1>1 DEF ControlInv, HandlerInv
    <2> QED  BY <2>1, AttributionNothing
  <1>2. CASE Reconnect
    BY <1>2, AttributionSame DEF Reconnect, history, Cut
  <1>3. CASE JoinDisconnecter
    <2>1. Cut' = Cut
      BY <1>3 DEF JoinDisconnecter, Cut, ControlInv, WorkerInv
    <2> QED  BY <1>3, <2>1, AttributionSame DEF JoinDisconnecter
  <1>4. CASE ClearDisconnecting
    BY <1>4, AttributionSame DEF ClearDisconnecting, history, Cut
  <1>5. CASE XmppConnect
    BY <1>5, AttributionSame DEF XmppConnect, history, Cut
  <1>6. CASE JoinRoom
    <2>1. ~inRoom
      BY <1>6 DEF JoinRoom, ControlInv, HandlerInv
    <2>2. CASE online
      BY <1>6, <2>1, <2>2, AttributionJoined DEF JoinRoom
    <2>3. CASE ~online
      BY <1>6, <2>3, <1>1 DEF JoinRoom
    <2> QED  BY <2>2, <2>3
  <1>6a. CASE CheckFails
    BY <1>6a, AttributionNothing DEF CheckFails
  <1>7. CASE JoinFinished
    BY <1>7, AttributionSame DEF JoinFinished, history, Cut
  <1>8. CASE handleMUCParticipantPresence
    <2>1. /\ stream # << >> /\ stream' = Tail(stream) /\ Head(stream) \in Stanzas
          /\ Head(stream).type \in {"available", "unavailable", "nickChange"}
      BY <1>8, ReceivesType DEF handleMUCParticipantPresence
    <2>2. PICK shown \in BOOLEAN : /\ nickToJid' = NicksAfter(Head(stream), shown)
                                   /\ hidden' = HiddenAfter(Head(stream), shown)
      BY <1>8 DEF handleMUCParticipantPresence
    <2>3. \A n \in Nicks :
              /\ Affects(Head(stream), n) =>
                    nickToJid'[n] = Gives(Head(stream), n) \/ n \in hidden'
              /\ ~Affects(Head(stream), n) =>
                    nickToJid'[n] = nickToJid[n] /\ (n \in hidden => n \in hidden')
      BY <2>1, <2>2, NicksAfterGives
    <2>4. Cut' = Cut /\ members' = members /\ inRoom' = inRoom
      BY <1>8 DEF handleMUCParticipantPresence, Cut
    <2> QED  BY <2>1, <2>3, <2>4, AttributionHandled
  <1>9. CASE handleMUCMessage
    BY <1>9, AttributionReceives DEF handleMUCMessage, history, Cut
  <1>10. CASE handleOwnPresence
    BY <1>10, AttributionReceives DEF handleOwnPresence, history, Cut
  <1>11. CASE handleMUCError
    BY <1>11, AttributionReceives DEF handleMUCError, history, Cut
  <1>12. CASE AsyncCheck
    BY <1>12, AttributionSame DEF AsyncCheck, history, Cut
  <1>13. CASE AsyncJoin
    <2>1. Cut' = Cut
      BY <1>13 DEF AsyncJoin, Cut
    <2> QED  BY <1>13, <2>1, AttributionSame DEF AsyncJoin, history
  <1>14. CASE AsyncStart
    <2>1. /\ \A n \in Nicks : nickToJid'[n] = None
          /\ Cut' /\ stream' = stream /\ inRoom' = inRoom /\ members' = members
      BY <1>14 DEF AsyncStart, NoNicks, Cut
    <2>2. ASSUME NEW i \in 1 .. Len(stream), stream[i].type = "message"
          PROVE  Resolves(stream, nickToJid', TRUE, hidden', i, stream[i].nick, stream[i].jid)
      <3>1. stream[i] \in Stanzas
        BY DEF TypeOK
      <3>2. PICK n, j : n = stream[i].nick /\ j = stream[i].jid
        OBVIOUS
      <3>3. n \in Nicks
        BY <2>2, <3>1, <3>2, StanzaParts
      <3>4. Resolves(stream, nickToJid, Cut, hidden, i, n, j)
        BY <2>2, <3>2 DEF AttributionInv, MessagesInv
      <3>5. Resolves(stream, nickToJid', TRUE, hidden', i, n, j)
        BY <2>1, <3>3, <3>4, ResolvesLost
      <3> QED  BY <3>2, <3>5
    <2>3. ASSUME inRoom, NEW n \in Nicks
          PROVE  Resolves(stream, nickToJid', TRUE, hidden', Len(stream) + 1, n, members[n])
      <3>1. Resolves(stream, nickToJid, Cut, hidden, Len(stream) + 1, n, members[n])
        BY <2>3 DEF AttributionInv, MembersInv
      <3> QED  BY <2>1, <3>1, ResolvesLost
    <2> QED  BY <2>1, <2>2, <2>3 DEF AttributionInv, MessagesInv, MembersInv
  <1>15. CASE AsyncAssign
    BY <1>15, AttributionSame DEF AsyncAssign, history, Cut
  <1>16. CASE Notify
    BY <1>16, AttributionSame DEF Notify, history, Cut
  <1>17. CASE LeaveRoom
    <2>1. Cut' = Cut
      BY <1>17 DEF LeaveRoom, Cut
    <2> QED  BY <1>17, <2>1, AttributionSame DEF LeaveRoom, history
  <1>18. CASE XmppDisconnect
    BY <1>18, AttributionNothing DEF XmppDisconnect
  <1>19. CASE ResetRoom
    BY <1>19, AttributionSame DEF ResetRoom, history, Cut
  <1>20. CASE FinishDisconnect
    BY <1>20, AttributionSame DEF FinishDisconnect, history, Cut
  <1>21. ASSUME NEW n \in Nicks, PeerSpeaks(n) PROVE AttributionInv'
    <2>1. PICK s : s = [type |-> "message", nick |-> n, jid |-> members[n]]
      OBVIOUS
    <2>2. members[n] \in Peers
      BY <1>21 DEF PeerSpeaks, TypeOK
    <2>3. s \in Stanzas /\ s.type = "message" /\ s.jid = members[s.nick]
      BY <2>1, <2>2, SentType
    <2>4. Sends(s)
      BY <1>21, <2>1 DEF PeerSpeaks
    <2> QED  BY <1>21, <2>3, <2>4, AttributionRoomSays DEF PeerSpeaks, history, Cut
  <1>22. ASSUME NEW n \in Nicks, NEW j \in Peers, PeerChanges(n, j) PROVE AttributionInv'
    BY <1>22, AttributionPeers
  <1>23. CASE RemovesUs
    <2>1. PICK s : s = [type |-> "removed"]
      OBVIOUS
    <2>2. s \in Stanzas /\ s.type = "removed" /\ Sends(s)
      BY <1>23, <2>1, SentType DEF RemovesUs
    <2> QED  BY <1>23, <2>2, AttributionRoomSays DEF RemovesUs, history, Cut
  <1>24. CASE RoomFails
    <2>1. PICK s : s = [type |-> "error"]
      OBVIOUS
    <2>2. s \in Stanzas /\ s.type = "error" /\ Sends(s)
      BY <1>24, <2>1, SentType DEF RoomFails
    <2> QED  BY <1>24, <2>2, AttributionRoomSays DEF RoomFails, history, Cut
  <1>25. CASE LoseConnection
    BY <1>25, AttributionNothing DEF LoseConnection
  <1> QED
    BY <1>0, <1>2, <1>3, <1>4, <1>5, <1>6, <1>6a, <1>7, <1>8, <1>9, <1>10, <1>11, <1>12,
       <1>13, <1>14, <1>15, <1>16, <1>17, <1>18, <1>19, <1>20, <1>21, <1>22,
       <1>23, <1>24, <1>25
    DEF Next, ConnectStep, HandlerStep, WorkerStep, RoomStep

(***************************************************************************)
(* Theorems                                                                *)
(***************************************************************************)
LEMMA InitAttribution == Init => AttributionInv
  <1> SUFFICES ASSUME Init PROVE AttributionInv
    OBVIOUS
  <1>1. Len(stream) = 0 /\ ~inRoom
    BY DEF Init
  <1> QED  BY <1>1 DEF AttributionInv, MessagesInv, MembersInv

(* The inductive invariant, whatever the reconnecter and the connection do.*)
THEOREM ClientInvariant == Spec => []ClientInv
  <1>1. Init => ClientInv
    BY InitType, InitControl, InitAttribution DEF ClientInv
  <1>2. ASSUME ClientInv, [Next]_vars PROVE ClientInv'
    <2>1. TypeOK /\ ControlInv /\ CalmInv /\ AttributionInv
      BY <1>2 DEF ClientInv
    <2>2. ControlInv'
      BY <1>2, <2>1, ControlStep
    <2>3. TypeOK'
      BY <1>2, <2>1, <2>2, TypeStep DEF ControlInv
    <2>4. AttributionInv'
      BY <1>2, <2>1, AttributionStep
    <2>5. CalmInv'
      BY <1>2, <2>1, CalmStep
    <2> QED  BY <2>2, <2>3, <2>4, <2>5 DEF ClientInv
  <1> QED  BY <1>1, <1>2, PTL DEF Spec

(* The room object exists whenever one of its handlers is running or may   *)
(* be called (DisconnectAsync: first Disconnect, then room.reset).         *)
THEOREM RoomAccessed == Spec => []RoomOutlivesHandler
  <1>1. ClientInv => RoomOutlivesHandler
    BY DEF ClientInv, ControlInv, HandlerInv, RoomOutlivesHandler
  <1> QED  BY <1>1, ClientInvariant, PTL

(* The CHECK "Did not fully disconnect previously" of Connect fails only   *)
(* if the connection was lost, or Connect ran in the window in which       *)
(* DisconnectAsync has not stored its thread.                              *)
THEOREM CheckFailureExplained == Spec => []CheckExplained
  <1>1. ClientInv => CheckExplained
    BY DEF ClientInv, CalmInv, CheckExplained
  <1> QED  BY <1>1, ClientInvariant, PTL

(* A message is attributed to its sender, or gets lost because the         *)
(* connection is about to be cut: never to somebody who has taken or left  *)
(* the nick name, as long as the room shows full JIDs (handleMUCMessage    *)
(* with handleMUCParticipantPresence).                                     *)
THEOREM SenderIsKnown == Spec => []MessagesAttributed
  <1>1. ASSUME ClientInv, stream # << >>, Head(stream).type = "message"
        PROVE  Known(nickToJid, Cut, hidden, Head(stream).nick, Head(stream).jid)
    <2>1. stream \in Seq(Stanzas)
      BY <1>1 DEF ClientInv, TypeOK
    <2>2. Head(stream) = stream[1] /\ 1 \in 1 .. Len(stream)
      BY <1>1, <2>1
    <2>3. Resolves(stream, nickToJid, Cut, hidden, 1, Head(stream).nick, Head(stream).jid)
      BY <1>1, <2>2 DEF ClientInv, AttributionInv, MessagesInv
    <2>4. 1 .. 1 - 1 = {}
      OBVIOUS
    <2> QED  BY <2>3, <2>4 DEF Resolves
  <1>2. ClientInv => MessagesAttributed
    BY <1>1 DEF MessagesAttributed, Known, Cut, ResolveNickname
  <1> QED  BY <1>2, ClientInvariant, PTL
=============================================================================
