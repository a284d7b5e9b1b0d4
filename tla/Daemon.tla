------------------------------- MODULE Daemon -------------------------------
(***************************************************************************)
(* Daemon::Impl, which connects the chat room to the order book and to the *)
(* trades: it authenticates the JIDs behind messages and departures, keeps *)
(* the JID of each account to answer to, and sends what the trades and the *)
(* own orders want to say.  An account may have several sessions, on the   *)
(* trusted server or elsewhere.  Handlers run on gloox's thread, one after *)
(* the other; the user's TakeOrder and the refresh of the own orders run   *)
(* on threads of their own.                                                *)
(***************************************************************************)
EXTENDS Authenticator

CONSTANTS
    Users,      \* user names that the peers may have
    MyUser,     \* our own
    MaxAge      \* clock ticks after which orders are too old

ASSUME MaxAgeAssumption == MaxAge \in Nat \ {0}
ASSUME UsersAssumption == Users \cup {MyUser} \subseteq Seq(Nat)
ASSUME MyUserAssumption == DecodeName(MyUser) # Invalid

xidServers == {"xid"}
JIDs == [user: Users \cup {MyUser}, server: {"xid", "elsewhere"}, resource: 1 .. 2]
NoJid == [user |-> << >>, server |-> "", resource |-> 0]

VARIABLES
    peers,      \* the JIDs of the others; does not change
    present,    \* those that are in the room
    connected,  \* we are connected to the room
    knownJids,  \* of the Authenticator
    book,       \* accounts with orders in the order book, and their age
    unseen,     \* history: accounts with a session that left unnoticed
    gone,       \* history: sessions that have left the room, and have neither
                \* come back nor written to us since
    take,       \* the account that TakeOrder looks up, on the user's thread
    raced,      \* history: knownJids was written to during that look-up
    refresh,    \* the refresher has seen that we are connected
    sent,       \* the last processing message: to which account and JID
    alive       \* no CHECK has failed

vars == <<peers, present, connected, knownJids, book, unseen, gone, take, raced,
          refresh, sent, alive>>

NoTake == <<-2>>

(***************************************************************************)
(* The Authenticator                                                       *)
(***************************************************************************)
AccountOf(jid) ==
    IF jid.server \in xidServers THEN DecodeName(jid.user) ELSE Invalid

(* Mutant: the account is found, but the JID is not remembered.            *)
AuthenticateForgets(jid) ==
    UNCHANGED <<knownJids, raced>>

(* Mutant: the first JID of an account is kept.                            *)
AuthenticateKeepsFirst(jid) ==
    LET a == AccountOf(jid) IN
    /\ knownJids' = [b \in DOMAIN knownJids \cup ({a} \ {Invalid}) |->
                       IF b \in DOMAIN knownJids THEN knownJids[b] ELSE jid]
    /\ raced' = (take # NoTake /\ (raced \/ a # Invalid))

(* There is no mutex: an insert may meet the look-up of another thread.    *)
Authenticate(jid) ==
    LET a == AccountOf(jid) IN
    /\ knownJids' = [b \in DOMAIN knownJids \cup ({a} \ {Invalid}) |->
                       IF b = a THEN jid ELSE knownJids[b]]
    /\ raced' = (take # NoTake /\ (raced \/ a # Invalid))

Found(known, a) == IF a \in DOMAIN known THEN known[a] ELSE NoJid

(***************************************************************************)
(* The order book, as far as the daemon uses it                            *)
(***************************************************************************)
Erased(a) == [b \in DOMAIN book \ {a} |-> book[b]]
Updated(a) == [b \in DOMAIN book \cup {a} |-> IF b = a THEN 0 ELSE book[b]]

(* Ages beyond the timeout are all alike.                                  *)
Tick ==
    /\ \E a \in DOMAIN book : book[a] <= MaxAge
    /\ book' = [a \in DOMAIN book |-> IF book[a] <= MaxAge THEN book[a] + 1 ELSE book[a]]
    /\ UNCHANGED <<peers, present, connected, knownJids, unseen, gone, take, raced,
                   refresh, sent, alive>>

RunTimeout ==
    /\ alive
    /\ \E a \in DOMAIN book : book[a] > MaxAge
    /\ book' = [a \in {b \in DOMAIN book : book[b] <= MaxAge} |-> book[a]]
    /\ unseen' = unseen \cap DOMAIN book'
    /\ UNCHANGED <<peers, present, connected, knownJids, gone, take, raced, refresh,
                   sent, alive>>

(***************************************************************************)
(* Handlers, for events of the room that we are told of                    *)
(***************************************************************************)
Hears == alive /\ connected

(* A broadcast: ext says whether it has a valid AccountOrdersStanza, valid *)
(* whether one of its orders passes ValidateOrder.  Without any the        *)
(* account is erased.                                                      *)
HandleMessage(j, ext, valid) ==
    LET a == AccountOf(j) IN
    /\ Hears /\ j \in present
    /\ Authenticate(j)
    /\ book' = IF a = Invalid \/ ~ext THEN book
               ELSE IF valid THEN Updated(a) ELSE Erased(a)
    /\ unseen' = IF a # Invalid /\ ext THEN unseen \ {a} ELSE unseen
    /\ gone' = gone \ {j}
    /\ UNCHANGED <<peers, present, connected, take, refresh, sent, alive>>

(* SendProcessingMessage of a reply, on the thread of the handler.  If the *)
(* connection is lost while the trades process the message, SendMessage    *)
(* aborts.                                                                 *)
SendReply(a) ==
    \/ /\ sent' = [account |-> a, jid |-> Found(knownJids', a)]
       /\ UNCHANGED <<connected, alive>>
    \/ /\ Found(knownJids', a) # NoJid
       /\ connected' = FALSE /\ alive' = FALSE
       /\ UNCHANGED sent

(* Private messages also come from sessions that are not in the room.      *)
HandlePrivate(j, replies) ==
    LET a == AccountOf(j) IN
    /\ Hears
    /\ Authenticate(j)
    /\ IF a # Invalid /\ replies THEN SendReply(a)
       ELSE UNCHANGED <<connected, sent, alive>>
    /\ gone' = gone \ {j}
    /\ UNCHANGED <<peers, present, book, unseen, take, refresh>>

(* Mutant: nothing is done about the orders of an account that leaves.     *)
HandleDisconnectKeeps(j) ==
    /\ Authenticate(j)
    /\ UNCHANGED book

HandleDisconnect(j) ==
    /\ Authenticate(j)
    /\ book' = Erased(AccountOf(j))

(***************************************************************************)
(* Sessions come and go                                                    *)
(***************************************************************************)
Joins(j) ==
    /\ j \in peers \ present
    /\ present' = present \cup {j}
    /\ gone' = gone \ {j}
    /\ UNCHANGED <<peers, connected, knownJids, book, unseen, take, raced, refresh, sent, alive>>

Leaves(j) ==
    /\ j \in present
    /\ present' = present \ {j}
    /\ gone' = gone \cup {j}
    /\ IF Hears
       THEN HandleDisconnect(j) /\ UNCHANGED unseen
       ELSE /\ unseen' = unseen \cup ({AccountOf(j)} \cap DOMAIN book)
            /\ UNCHANGED <<knownJids, raced, book>>
    /\ UNCHANGED <<peers, connected, take, refresh, sent, alive>>

ConnectionChanges ==
    /\ alive
    /\ connected' = ~connected
    /\ UNCHANGED <<peers, present, knownJids, book, unseen, gone, take, raced, refresh,
                   sent, alive>>

(***************************************************************************)
(* Other threads                                                           *)
(***************************************************************************)
(* The user takes an order of the book; the trade is started, and the JID  *)
(* of the maker looked up.                                                 *)
TakeOrder(a) ==
    /\ alive /\ take = NoTake
    /\ a \in DOMAIN book
    /\ take' = a
    /\ raced' = FALSE
    /\ UNCHANGED <<peers, present, connected, knownJids, book, unseen, gone, refresh,
                   sent, alive>>

(* What LookupJid returns, NoJid for none.  A look-up that meets an insert *)
(* is a data race: it may miss the entry.                                  *)
LookupJid(a) ==
    {Found(knownJids, a)} \cup (IF raced THEN {NoJid} ELSE {})

(* SendMessage aborts if we are not connected.                             *)
TakeOrderSends ==
    /\ alive /\ take # NoTake
    /\ \E j \in LookupJid(take) :
         IF j = NoJid \/ connected
         THEN sent' = [account |-> take, jid |-> j] /\ UNCHANGED alive
         ELSE alive' = FALSE /\ UNCHANGED sent
    /\ take' = NoTake
    /\ UNCHANGED <<peers, present, connected, knownJids, book, unseen, gone, raced,
                   refresh>>

(* MyOrdersImpl::UpdateOrders: IsConnected and then PublishMessage.        *)
UpdateOrders ==
    /\ alive
    /\ \/ ~refresh /\ connected /\ refresh' = TRUE /\ UNCHANGED alive
       \/ refresh /\ refresh' = FALSE /\ alive' = connected
    /\ UNCHANGED <<peers, present, connected, knownJids, book, unseen, gone, take, raced,
                   sent>>

(***************************************************************************)
(* Specification                                                           *)
(***************************************************************************)
MyJid == [user |-> MyUser, server |-> "xid", resource |-> 1]

(* Two sessions of a user on the trusted server, and one of the same name  *)
(* on some other server.                                                   *)
Sessions(user) ==
    {[user |-> user, server |-> "xid", resource |-> 1],
     [user |-> user, server |-> "xid", resource |-> 2],
     [user |-> user, server |-> "elsewhere", resource |-> 1]}

Init ==
    /\ \E user \in Users : peers = Sessions(user)
    /\ present = {} /\ connected = TRUE
    /\ knownJids = [a \in {DecodeName(MyUser)} |-> MyJid]
    /\ book = [a \in {} |-> 0]
    /\ unseen = {} /\ gone = {}
    /\ take = NoTake /\ raced = FALSE
    /\ refresh = FALSE
    /\ sent = [account |-> NoTake, jid |-> NoJid]
    /\ alive = TRUE

Next ==
    \/ \E j \in peers :
         \/ Joins(j) \/ Leaves(j)
         \/ \E ext, valid \in BOOLEAN : HandleMessage(j, ext, valid)
         \/ \E replies \in BOOLEAN : HandlePrivate(j, replies)
    \/ ConnectionChanges
    \/ Tick \/ RunTimeout
    \/ \E a \in DOMAIN book : TakeOrder(a)
    \/ TakeOrderSends
    \/ UpdateOrders

Spec == Init /\ [][Next]_vars

(***************************************************************************)
(* Properties                                                              *)
(***************************************************************************)
(* "Prevent multiple XMPP names to resolve to the same decoded one"        *)
(* (DecodeName): for each account there is just one user name, and a       *)
(* processing message for an account goes only to sessions of that user on *)
(* a trusted server, whoever has joined, sent to us or left before.        *)
OwnedBy(jid, a) == jid.server \in xidServers /\ jid.user = EncodeName(a)
PrivateToOwner ==
    /\ \A a \in DOMAIN knownJids : OwnedBy(knownJids[a], a)
    /\ sent.jid # NoJid => OwnedBy(sent.jid, sent.account)

(* "During normal operation, we will always receive messages from some     *)
(* account first before we need to send private messages to them"          *)
(* (Authenticator::LookupJid): a message about an order from the book      *)
(* finds a receiver, except in the data race with a handler.               *)
TakeFindsMaker ==
    take # NoTake /\ ~raced => NoJid \notin LookupJid(take)

(* The book holds no orders of accounts that have left the room, unless a  *)
(* departure has escaped us; two sessions of an account do not keep each   *)
(* other's orders (HandleDisconnect).                                      *)
BookOfPresent ==
    \A a \in DOMAIN book :
        a \in unseen \/ \E j \in present : AccountOf(j) = a

(* The JID that is known of the maker of an order in the book, the one     *)
(* that "they were using when sending to us" (Authenticator), is not that  *)
(* of a session that has left, unless a departure has escaped us: although *)
(* HandleDisconnect makes the JID of the session that leaves the known one *)
(* (it authenticates it), and another session of the account may remain.   *)
MakerReachable ==
    \A a \in DOMAIN book : a \in unseen \/ knownJids[a] \notin gone
=============================================================================
