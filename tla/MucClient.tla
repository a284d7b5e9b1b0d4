----------------------------- MODULE MucClient -----------------------------
(***************************************************************************)
(* The client in the chat room: the reconnecter job of the daemon, which   *)
(* runs Connect whenever the client is not connected; gloox's thread, which*)
(* runs the handlers of stanzas the room sends; and the thread that        *)
(* DisconnectAsync starts, because a handler cannot wait for the end of    *)
(* the connection it is called from.  The nick map tells which full JID a  *)
(* nick name of the room stands for.  The connection may be lost at any    *)
(* time, which runs no handler.                                            *)
(***************************************************************************)
EXTENDS Naturals, Sequences, FiniteSets, Functions

CONSTANTS
    Peers,       \* JIDs of the others
    Anonymous,   \* those of them whose JID the room does not always show
    Nicks,       \* nick names they use in the room
    MaxStream,   \* bound: stanzas under way when the room sends one more
    None         \* a nick name nobody uses

ASSUME NoneAssumption == None \notin Peers /\ Anonymous \subseteq Peers
ASSUME NicksAssumption == IsFiniteSet(Nicks)
ASSUME BoundAssumption == MaxStream \in Nat

VARIABLES
    members,        \* the room: who uses a nick name
    inRoom,         \* the room: we are a participant
    stream,         \* stanzas from the room to us
    online,         \* XmppClient::IsConnected ()
    room,           \* room # nullptr
    disconnecting,  \* the flag
    joinable,       \* disconnecter.joinable ()
    joining,        \* Connect waits for our presence
    nickToJid,      \* the nick map
    connect,        \* where the thread of Connect is, "aborted": its CHECK
                    \* has failed, which is the end of the process
    handler,        \* where gloox's thread is, "idle": in no handler
    worker,         \* where the thread that disconnects is
    lost,           \* history: since the last join of the room, the connection
                    \* was lost while we were not disconnecting
    raced,          \* history: since the last join, Connect was past joining the
                    \* thread before DisconnectAsync had stored the one it starts
    hidden          \* history: nick names whose last presence had no full JID

vars == <<members, inRoom, stream, online, room, disconnecting, joinable,
          joining, nickToJid, connect, handler, worker, lost, raced, hidden>>

server  == <<members, inRoom>>
threads == <<connect, handler, worker>>
history == <<lost, raced, hidden>>

Presence == [type: {"available", "unavailable"}, nick: Nicks, jid: Peers]
            \cup [type: {"nickChange"}, nick: Nicks, newNick: Nicks, jid: Peers]
Messages == [type: {"message"}, nick: Nicks, jid: Peers]
Stanzas  == Presence \cup Messages \cup [type: {"self", "removed", "error"}]

NoNicks == [n \in Nicks |-> None]

IsConnected == ~disconnecting /\ online

(* What the instance's mutex protects is done in one step, except that     *)
(* DisconnectAsync holds it until it has stored the thread.                *)
MutexFree == handler # "assign"

(***************************************************************************)
(* Connect, called by the reconnecter                                      *)
(***************************************************************************)
Reconnect ==
    /\ connect = "idle" /\ ~IsConnected
    /\ connect' = "join"
    /\ UNCHANGED <<server, stream, online, room, disconnecting, joinable,
                   joining, nickToJid, handler, worker, history>>

(* Mutant: Connect does not wait for the thread.                           *)
JoinDisconnecterDetaches ==
    /\ connect = "join"
    /\ worker' = IF joinable /\ worker = "done" THEN "none" ELSE worker
    /\ joinable' = FALSE
    /\ raced' = (raced \/ handler \in {"async", "join", "start", "assign"})
    /\ connect' = "clear"
    /\ UNCHANGED <<server, stream, online, room, disconnecting, joining,
                   nickToJid, handler, lost, hidden>>

JoinDisconnecter ==
    /\ connect = "join"
    /\ joinable => worker = "done"
    /\ worker' = IF joinable THEN "none" ELSE worker
    /\ joinable' = FALSE
    /\ raced' = (raced \/ handler \in {"async", "join", "start", "assign"})
    /\ connect' = "clear"
    /\ UNCHANGED <<server, stream, online, room, disconnecting, joining,
                   nickToJid, handler, lost, hidden>>

ClearDisconnecting ==
    /\ connect = "clear"
    /\ disconnecting' = FALSE
    /\ connect' = "xmpp"
    /\ UNCHANGED <<server, stream, online, room, joinable, joining, nickToJid,
                   handler, worker, history>>

XmppConnect ==
    /\ connect = "xmpp"
    /\ \/ online' = TRUE /\ connect' = "room"
       \/ UNCHANGED online /\ connect' = "idle"
    /\ UNCHANGED <<server, stream, room, disconnecting, joinable, joining,
                   nickToJid, handler, worker, history>>

(* What the room sends to a new participant: all the others, in any order, *)
(* and ourselves at last, or an error.                                     *)
Occupied == {n \in Nicks : members[n] # None}

RoomAnswers ==
    \/ /\ \E f \in Bijection(1 .. Cardinality(Occupied), Occupied) :
            stream' = Append([i \in 1 .. Cardinality(Occupied) |->
                                [type |-> "available", nick |-> f[i], jid |-> members[f[i]]]],
                             [type |-> "self"])
       /\ inRoom' = TRUE
    \/ /\ stream' = <<[type |-> "error"]>>
       /\ UNCHANGED inRoom

(* A connection that is gone gives no answer.                              *)
JoinRoom ==
    /\ connect = "room" /\ MutexFree
    /\ ~room
    /\ nickToJid' = NoNicks /\ hidden' = {}
    /\ room' = TRUE /\ joining' = TRUE
    /\ connect' = "wait"
    /\ IF online THEN RoomAnswers ELSE UNCHANGED <<stream, inRoom>>
    /\ lost' = (lost /\ ~IsConnected) /\ raced' = (raced /\ ~IsConnected)
    /\ UNCHANGED <<members, online, disconnecting, joinable, handler, worker>>

(* CHECK (room == nullptr) << "Did not fully disconnect previously": the   *)
(* process ends with all its threads.                                      *)
CheckFails ==
    /\ connect = "room" /\ MutexFree
    /\ room
    /\ connect' = "aborted" /\ handler' = "idle" /\ worker' = "none"
    /\ nickToJid' = NoNicks /\ hidden' = {}
    /\ joinable' = FALSE
    /\ online' = FALSE /\ stream' = << >> /\ inRoom' = FALSE
    /\ UNCHANGED <<members, room, disconnecting, joining, lost, raced>>

JoinFinished ==
    /\ connect = "wait" /\ MutexFree
    /\ ~joining
    /\ connect' = "idle"
    /\ UNCHANGED <<server, stream, online, room, disconnecting, joinable,
                   joining, nickToJid, handler, worker, history>>

(***************************************************************************)
(* The handlers.  The next stanza is handled when the last one is done.    *)
(***************************************************************************)
Receives(type) ==
    /\ handler = "idle" /\ online /\ stream # << >>
    /\ Head(stream).type = type
    /\ stream' = Tail(stream)

(* Mutant: a change of the nick name is taken for a departure.             *)
NicksAfterLeaving(p, shown) ==
    CASE p.type \in {"unavailable", "nickChange"} -> [nickToJid EXCEPT ![p.nick] = None]
      [] p.type = "available" /\ shown -> [nickToJid EXCEPT ![p.nick] = p.jid]
      [] OTHER -> nickToJid

(* A departure is known by the nick name, anything else by the full JID,   *)
(* which the room need not show.                                           *)
NicksAfter(p, shown) ==
    CASE p.type = "unavailable" -> [nickToJid EXCEPT ![p.nick] = None]
      [] p.type = "available" /\ shown -> [nickToJid EXCEPT ![p.nick] = p.jid]
      [] p.type = "nickChange" /\ shown ->
            [nickToJid EXCEPT ![p.nick] = None, ![p.newNick] = p.jid]
      [] OTHER -> nickToJid

NickNamesOf(p) == IF p.type = "nickChange" THEN {p.nick, p.newNick} ELSE {p.nick}

HiddenAfter(p, shown) ==
    IF shown \/ p.type = "unavailable" THEN hidden \ NickNamesOf(p)
                                       ELSE hidden \cup NickNamesOf(p)

handleMUCParticipantPresence ==
    /\ \/ Receives("available")
       \/ Receives("unavailable")
       \/ Receives("nickChange")
    /\ \E shown \in {TRUE, Head(stream).jid \notin Anonymous} :
         /\ nickToJid' = NicksAfter(Head(stream), shown)
         /\ hidden' = HiddenAfter(Head(stream), shown)
    /\ UNCHANGED <<server, online, room, disconnecting, joinable, joining,
                   threads, lost, raced>>

(* The JID of a message is who has really sent it, which only the room     *)
(* knows: we take it to be from the JID that ResolveNickname gives for the *)
(* nick name, if there is one.                                             *)
ResolveNickname(nick) == nickToJid[nick]

handleMUCMessage ==
    /\ Receives("message")
    /\ UNCHANGED <<server, online, room, disconnecting, joinable, joining, nickToJid, threads, history>>

handleOwnPresence ==
    /\ Receives("self")
    /\ joining' = FALSE
    /\ UNCHANGED <<server, online, room, disconnecting, joinable, nickToJid, threads, history>>

(* Our own presence is unavailable, or handleMUCError: DisconnectAsync.    *)
handleMUCError ==
    /\ Receives("removed") \/ Receives("error")
    /\ handler' = "async"
    /\ UNCHANGED <<server, online, room, disconnecting, joinable, joining,
                   nickToJid, connect, worker, history>>

(* Mutant: DisconnectAsync does not return early.                          *)
AsyncAlways ==
    /\ handler = "async"
    /\ handler' = "join"
    /\ UNCHANGED <<server, stream, online, room, disconnecting, joinable,
                   joining, nickToJid, connect, worker, history>>

AsyncCheck ==
    /\ handler = "async"
    /\ handler' = IF disconnecting THEN "notify" ELSE "join"
    /\ UNCHANGED <<server, stream, online, room, disconnecting, joinable,
                   joining, nickToJid, connect, worker, history>>

AsyncJoin ==
    /\ handler = "join"
    /\ joinable => worker = "done"
    /\ worker' = IF joinable THEN "none" ELSE worker
    /\ joinable' = FALSE
    /\ handler' = "start"
    /\ UNCHANGED <<server, stream, online, room, disconnecting, joining,
                   nickToJid, connect, history>>

AsyncStart ==
    /\ handler = "start"
    /\ nickToJid' = NoNicks /\ hidden' = {}
    /\ disconnecting' = TRUE
    /\ worker' = "leave"
    /\ handler' = "assign"
    /\ UNCHANGED <<server, stream, online, room, joinable, joining, connect, lost, raced>>

AsyncAssign ==
    /\ handler = "assign"
    /\ joinable' = TRUE
    /\ handler' = "notify"
    /\ UNCHANGED <<server, stream, online, room, disconnecting, joining,
                   nickToJid, connect, worker, history>>

(* Mutant: Connect is not told.                                            *)
NotifyNobody ==
    /\ handler = "notify"
    /\ handler' = "idle"
    /\ UNCHANGED <<server, stream, online, room, disconnecting, joinable, joining,
                   nickToJid, connect, worker, history>>

Notify ==
    /\ handler = "notify"
    /\ joining' = FALSE
    /\ handler' = "idle"
    /\ UNCHANGED <<server, stream, online, room, disconnecting, joinable,
                   nickToJid, connect, worker, history>>

(* Mutant: the room is destroyed when we have left it.                     *)
LeaveRoomDestroys ==
    /\ worker = "leave"
    /\ inRoom' = FALSE
    /\ room' = FALSE
    /\ worker' = "disconnect"
    /\ UNCHANGED <<members, stream, online, disconnecting, joinable, joining,
                   nickToJid, connect, handler, history>>

(***************************************************************************)
(* The thread that DisconnectAsync has started                             *)
(***************************************************************************)
LeaveRoom ==
    /\ worker = "leave"
    /\ inRoom' = (inRoom /\ ~room)
    /\ worker' = "disconnect"
    /\ UNCHANGED <<members, stream, online, room, disconnecting, joinable,
                   joining, nickToJid, connect, handler, history>>

(* XmppClient::Disconnect waits until no handler is running.               *)
XmppDisconnect ==
    /\ worker = "disconnect"
    /\ handler = "idle"
    /\ online' = FALSE /\ stream' = << >> /\ inRoom' = FALSE
    /\ worker' = "reset"
    /\ UNCHANGED <<members, room, disconnecting, joinable, joining, nickToJid,
                   connect, handler, history>>

ResetRoom ==
    /\ worker = "reset"
    /\ room' = FALSE
    /\ worker' = "finish"
    /\ UNCHANGED <<server, stream, online, disconnecting, joinable, joining,
                   nickToJid, connect, handler, history>>

FinishDisconnect ==
    /\ worker = "finish"
    /\ disconnecting' = FALSE
    /\ worker' = "done"
    /\ UNCHANGED <<server, stream, online, room, joinable, joining, nickToJid,
                   connect, handler, history>>

(***************************************************************************)
(* The connection and the room                                             *)
(***************************************************************************)
(* The connection ends by itself: gloox knows, but calls no handler of the *)
(* room, and the room object stays.                                        *)
LoseConnection ==
    /\ online
    /\ online' = FALSE /\ stream' = << >> /\ inRoom' = FALSE
    /\ lost' = (lost \/ ~disconnecting)
    /\ UNCHANGED <<members, room, disconnecting, joinable, joining, nickToJid,
                   threads, raced, hidden>>

Sends(s) ==
    IF inRoom THEN Len(stream) < MaxStream /\ stream' = Append(stream, s)
              ELSE UNCHANGED stream

PeerChanges(n, j) ==
    /\ \/ /\ members[n] = None /\ \A k \in Nicks : members[k] # j
          /\ members' = [members EXCEPT ![n] = j]
          /\ Sends([type |-> "available", nick |-> n, jid |-> j])
       \/ /\ members[n] = j
          /\ members' = [members EXCEPT ![n] = None]
          /\ Sends([type |-> "unavailable", nick |-> n, jid |-> j])
       \/ \E k \in Nicks :
            /\ members[n] = j /\ members[k] = None
            /\ members' = [members EXCEPT ![n] = None, ![k] = j]
            /\ Sends([type |-> "nickChange", nick |-> n, newNick |-> k, jid |-> j])
    /\ UNCHANGED <<inRoom, online, room, disconnecting, joinable, joining,
                   nickToJid, threads, history>>

PeerSpeaks(n) ==
    /\ inRoom /\ members[n] # None
    /\ Sends([type |-> "message", nick |-> n, jid |-> members[n]])
    /\ UNCHANGED <<server, online, room, disconnecting, joinable, joining,
                   nickToJid, threads, history>>

RemovesUs ==
    /\ inRoom
    /\ Sends([type |-> "removed"])
    /\ inRoom' = FALSE
    /\ UNCHANGED <<members, online, room, disconnecting, joinable, joining,
                   nickToJid, threads, history>>

RoomFails ==
    /\ inRoom
    /\ Sends([type |-> "error"])
    /\ UNCHANGED <<server, online, room, disconnecting, joinable, joining,
                   nickToJid, threads, history>>

(* The flags disconnecting and joining are not initialised by the          *)
(* constructor.                                                            *)
Init ==
    /\ members = NoNicks /\ inRoom = FALSE /\ stream = << >>
    /\ online = FALSE /\ room = FALSE /\ joinable = FALSE
    /\ disconnecting \in BOOLEAN /\ joining \in BOOLEAN
    /\ nickToJid = NoNicks
    /\ connect = "idle" /\ handler = "idle" /\ worker = "none"
    /\ lost = FALSE /\ raced = FALSE /\ hidden = {}

ConnectStep ==
    \/ JoinDisconnecter \/ ClearDisconnecting \/ XmppConnect
    \/ JoinRoom \/ CheckFails \/ JoinFinished
HandlerStep ==
    \/ handleMUCParticipantPresence \/ handleMUCMessage
    \/ handleOwnPresence \/ handleMUCError
    \/ AsyncCheck \/ AsyncJoin \/ AsyncStart \/ AsyncAssign \/ Notify
WorkerStep == LeaveRoom \/ XmppDisconnect \/ ResetRoom \/ FinishDisconnect

RoomStep ==
    \/ \E n \in Nicks : PeerSpeaks(n) \/ \E j \in Peers : PeerChanges(n, j)
    \/ RemovesUs
    \/ RoomFails

Next ==
    \/ Reconnect \/ ConnectStep \/ HandlerStep \/ WorkerStep
    \/ LoseConnection \/ RoomStep

Spec == Init /\ [][Next]_vars

(* Threads run.  Nothing is assumed of the room, of the connection and of  *)
(* the reconnecter.                                                        *)
FairSpec ==
    /\ Spec
    /\ WF_vars(ConnectStep)
    /\ WF_vars(HandlerStep)
    /\ WF_vars(WorkerStep)

(***************************************************************************)
(* Properties                                                              *)
(***************************************************************************)
(* All state stays within its types, and disconnecter is joinable only if  *)
(* a thread has been started and not been joined.                          *)
TypeOK ==
    /\ members \in [Nicks -> Peers \cup {None}]
    /\ nickToJid \in [Nicks -> Peers \cup {None}]
    /\ stream \in Seq(Stanzas)
    /\ inRoom \in BOOLEAN /\ online \in BOOLEAN /\ room \in BOOLEAN
    /\ disconnecting \in BOOLEAN /\ joinable \in BOOLEAN /\ joining \in BOOLEAN
    /\ connect \in {"idle", "join", "clear", "xmpp", "room", "wait", "aborted"}
    /\ handler \in {"idle", "async", "join", "start", "assign", "notify"}
    /\ worker \in {"none", "leave", "disconnect", "reset", "finish", "done"}
    /\ lost \in BOOLEAN /\ raced \in BOOLEAN /\ hidden \in SUBSET Nicks
    /\ joinable => worker # "none"

(* The room object exists as long as one of its handlers is running or may *)
(* be called ("Disconnect first, and then destroy the room.  This ensures  *)
(* it won't be accessed after being freed", in DisconnectAsync).           *)
RoomOutlivesHandler == handler # "idle" \/ (online /\ stream # << >>) => room

(* A message that the handler is about to resolve is attributed to nobody  *)
(* but its sender, while nick names change hands; it gets lost only if a   *)
(* thread is about to end the connection.  The only exception are nick     *)
(* names whose last presence came without a full JID (handleMUCMessage).   *)
MessagesAttributed ==
    handler = "idle" /\ online /\ stream # << >> /\ Head(stream).type = "message" =>
        \/ ResolveNickname(Head(stream).nick) = Head(stream).jid
        \/ /\ worker \in {"leave", "disconnect"}
           /\ ResolveNickname(Head(stream).nick) = None
        \/ Head(stream).nick \in hidden

(* The CHECK in Connect, "Did not fully disconnect previously", fails for  *)
(* two reasons only: the connection was lost, which runs nothing that      *)
(* would destroy the room; or Connect looked for the thread to join before *)
(* DisconnectAsync had stored it.                                          *)
CheckExplained == connect = "aborted" => lost \/ raced

(* Connect waits for ever (cvJoin has no timeout) for the same two reasons *)
(* only: else it hears of its own presence or of an error, or the handler  *)
(* that disconnects wakes it up.                                           *)
ConnectReturns == connect = "wait" ~> connect # "wait" \/ lost \/ raced

(* The handler that waits for an earlier disconnect (line 100) and the     *)
(* disconnect that waits for the handler wait for each other only if       *)
(* Connect has cleared the flag that keeps them apart, in the window in    *)
(* which DisconnectAsync has not stored its thread: also not when the      *)
(* connection is lost.                                                     *)
DisconnectCompletes == worker = "leave" ~> worker = "done" \/ connect = "aborted" \/ raced
=============================================================================
