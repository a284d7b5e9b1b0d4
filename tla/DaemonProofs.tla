---------------------------- MODULE DaemonProofs ----------------------------
(***************************************************************************)
(* The daemon, proved for any user names and any number of sessions: an    *)
(* account has just one user name, so that what is sent to an account      *)
(* reaches nobody else; a message about an order of the book finds its     *)
(* receiver, who has not left; and the book holds no orders of those who   *)
(* have left.                                                              *)
(***************************************************************************)
EXTENDS Daemon, SequenceTheorems, TLAPS

(***************************************************************************)
(* User names: EncodeName undoes DecodeName                                *)
(***************************************************************************)
(* Hex digits have the values 0 to 15, and HexDigit undoes HexCharValue.   *)
LEMMA HexRoundTrip ==
    ASSUME NEW c \in Nat, HexCharValue(c) # -1
    PROVE  HexCharValue(c) \in 0 .. 15 /\ HexDigit(HexCharValue(c)) = c
  BY DEF HexCharValue, HexDigit

LEMMA ByteParts ==
    ASSUME NEW x \in 0 .. 15, NEW y \in 0 .. 15
    PROVE  (16 * x + y) \div 16 = x /\ (16 * x + y) % 16 = y /\ 16 * x + y \in Nat
  OBVIOUS

(* Positions of the two digits of a byte.                                  *)
LEMMA Halves ==
    ASSUME NEW len \in Nat, len % 2 = 0
    PROVE  /\ len \div 2 \in Nat /\ 2 * (len \div 2) = len
           /\ \A i \in 1 .. len :
                /\ (i + 1) \div 2 \in 1 .. len \div 2
                /\ i % 2 = 1 => 2 * ((i + 1) \div 2) - 1 = i
                /\ i % 2 # 1 => 2 * ((i + 1) \div 2) = i
           /\ \A k \in 1 .. len \div 2 : 2 * k \in 1 .. len /\ 2 * k - 1 \in 1 .. len
  OBVIOUS

LEMMA BytesRoundTrip ==
    ASSUME NEW hex \in Seq(Nat), Len(hex) % 2 = 0,
           \A i \in DOMAIN hex : HexCharValue(hex[i]) # -1
    PROVE  /\ Bytes(hex) \in Seq(Nat)
           /\ 2 * Len(Bytes(hex)) = Len(hex)
           /\ [i \in 1 .. 2 * Len(Bytes(hex)) |->
                 LET c == Bytes(hex)[(i + 1) \div 2]
                 IN  HexDigit(IF i % 2 = 1 THEN c \div 16 ELSE c % 16)] = hex
  <1>1. PICK len : len = Len(hex)
    OBVIOUS
  <1>2. PICK half : half = len \div 2
    OBVIOUS
  <1>3. len \in Nat /\ len % 2 = 0 /\ DOMAIN hex = 1 .. len
        /\ \A i \in 1 .. len : hex[i] \in Nat
    BY <1>1
  <1>4. /\ half \in Nat /\ 2 * half = len
        /\ \A i \in 1 .. len :
             /\ (i + 1) \div 2 \in 1 .. half
             /\ i % 2 = 1 => 2 * ((i + 1) \div 2) - 1 = i
             /\ i % 2 # 1 => 2 * ((i + 1) \div 2) = i
        /\ \A k \in 1 .. half : 2 * k \in 1 .. len /\ 2 * k - 1 \in 1 .. len
    BY <1>2, <1>3, Halves
  <1>5. PICK v : v = [i \in 1 .. len |-> HexCharValue(hex[i])]
    OBVIOUS
  <1>6. \A i \in 1 .. len : v[i] \in 0 .. 15 /\ HexDigit(v[i]) = hex[i]
    BY <1>3, <1>5, HexRoundTrip
  <1>7. PICK b : b = [k \in 1 .. half |-> 16 * v[2 * k - 1] + v[2 * k]]
    OBVIOUS
  <1>8. Bytes(hex) = b
    BY <1>1, <1>2, <1>4, <1>5, <1>7 DEF Bytes
  <1>9. \A k \in 1 .. half : b[k] \in Nat /\ b[k] \div 16 = v[2 * k - 1] /\ b[k] % 16 = v[2 * k]
    BY <1>4, <1>6, <1>7, ByteParts
  <1>10. b \in Seq(Nat) /\ Len(b) = half
    BY <1>4, <1>7, <1>9
  <1>11. ASSUME NEW i \in 1 .. len
         PROVE  HexDigit(IF i % 2 = 1 THEN b[(i + 1) \div 2] \div 16
                                      ELSE b[(i + 1) \div 2] % 16) = hex[i]
    <2>1. PICK k \in 1 .. half : k = (i + 1) \div 2
      BY <1>4
    <2>2. CASE i % 2 = 1
      <3>1. 2 * k - 1 = i
        BY <1>4, <2>1, <2>2
      <3>2. b[k] \div 16 = v[i]
        BY <1>9, <3>1
      <3> QED  BY <1>6, <2>1, <2>2, <3>2
    <2>3. CASE i % 2 # 1
      <3>1. 2 * k = i
        BY <1>4, <2>1, <2>3
      <3>2. b[k] % 16 = v[i]
        BY <1>9, <3>1
      <3> QED  BY <1>6, <2>1, <2>3, <3>2
    <2> QED  BY <2>2, <2>3
  <1>12. [i \in 1 .. len |-> HexDigit(IF i % 2 = 1 THEN b[(i + 1) \div 2] \div 16
                                                   ELSE b[(i + 1) \div 2] % 16)] = hex
    <2>1. hex = [i \in 1 .. len |-> hex[i]]
      BY <1>3
    <2> QED  BY <1>11, <2>1
  <1>13. 2 * Len(Bytes(hex)) = len
    BY <1>4, <1>8, <1>10
  <1> QED  BY <1>1, <1>8, <1>10, <1>12, <1>13

(* A name with the prefix is the prefix and the hex part.                  *)
LEMMA PrefixAndHex ==
    ASSUME NEW name \in Seq(Nat), HasPrefix(name)
    PROVE  HexPart(name) \in Seq(Nat) /\ ENCODED_PREFIX \o HexPart(name) = name
  <1>0. Len(name) \in Nat /\ Len(name) >= 2 /\ \A i \in 1 .. Len(name) : name[i] \in Nat
    BY DEF HasPrefix
  <1>1. name[1] = 120 /\ name[2] = 45
    <2>1. PICK p : p = SubSeq(name, 1, 2)
      OBVIOUS
    <2>2. \A i \in 1 .. 2 : name[i] \in Nat
      BY <1>0
    <2>3. \A i \in 1 .. 2 - 1 + 1 : p[i] = name[1 + i - 1]
      BY <2>1, <2>2, SubSeqProperties
    <2>4. p[1] = name[1] /\ p[2] = name[2]
      BY <2>3
    <2>5. p = <<120, 45>>
      BY <2>1 DEF HasPrefix, ENCODED_PREFIX
    <2> QED  BY <2>4, <2>5
  <1>2. HexPart(name) \in Seq(Nat) /\ Len(HexPart(name)) = Len(name) - 2
        /\ \A i \in 1 .. Len(name) - 2 : HexPart(name)[i] = name[i + 2]
    <2>1. PICK p, len : p = SubSeq(name, 3, len) /\ len = Len(name)
      OBVIOUS
    <2>2. len \in Nat /\ len >= 2 /\ \A i \in 3 .. len : name[i] \in Nat
      BY <1>0, <2>1
    <2>3. /\ p \in Seq(Nat) /\ Len(p) = IF 3 <= len THEN len - 3 + 1 ELSE 0
          /\ \A i \in 1 .. len - 3 + 1 : p[i] = name[3 + i - 1]
      BY <2>1, <2>2, SubSeqProperties
    <2>4. Len(p) = len - 2 /\ \A i \in 1 .. len - 2 : p[i] = name[i + 2]
      BY <2>2, <2>3
    <2> QED  BY <2>1, <2>3, <2>4 DEF HexPart
  <1>3. PICK hex \in Seq(Nat) : hex = HexPart(name)
    BY <1>2
  <1>4. ENCODED_PREFIX \in Seq(Nat) /\ Len(ENCODED_PREFIX) = 2
        /\ ENCODED_PREFIX[1] = 120 /\ ENCODED_PREFIX[2] = 45
    BY DEF ENCODED_PREFIX
  <1>5. PICK whole : whole = ENCODED_PREFIX \o hex
    OBVIOUS
  <1>6. whole \in Seq(Nat) /\ Len(whole) = Len(name)
        /\ \A i \in 1 .. Len(name) : whole[i] = IF i <= 2 THEN ENCODED_PREFIX[i] ELSE hex[i - 2]
    <2>1. /\ whole \in Seq(Nat) /\ Len(whole) = 2 + Len(hex)
          /\ \A i \in 1 .. 2 + Len(hex) : whole[i] =
                  IF i <= 2 THEN ENCODED_PREFIX[i] ELSE hex[i - 2]
      <3>1. PICK pre \in Seq(Nat) : pre = ENCODED_PREFIX
        BY <1>4
      <3>2. PICK w : w = pre \o hex
        OBVIOUS
      <3>3. /\ w \in Seq(Nat) /\ Len(w) = Len(pre) + Len(hex)
            /\ \A i \in 1 .. Len(pre) + Len(hex) : w[i] =
                    IF i <= Len(pre) THEN pre[i] ELSE hex[i - Len(pre)]
        BY <3>2, ConcatProperties
      <3>4. Len(pre) = 2 /\ w = whole
        BY <1>4, <1>5, <3>1, <3>2
      <3> QED  BY <3>1, <3>3, <3>4
    <2>2. 2 + Len(hex) = Len(name)
      BY <1>0, <1>2, <1>3
    <2> QED  BY <2>1, <2>2
  <1>7. ASSUME NEW i \in 1 .. Len(name) PROVE whole[i] = name[i]
    <2>1. CASE i <= 2
      <3>1. i = 1 \/ i = 2
        BY <2>1
      <3> QED  BY <1>1, <1>4, <1>6, <2>1, <3>1
    <2>2. CASE ~(i <= 2)
      <3>1. i - 2 \in 1 .. Len(name) - 2 /\ (i - 2) + 2 = i
        BY <1>0, <2>2
      <3> QED  BY <1>2, <1>3, <1>6, <2>2, <3>1
    <2> QED  BY <2>1, <2>2
  <1>8. whole = name
    BY <1>6, <1>7, SeqEqual
  <1> QED  BY <1>2, <1>3, <1>5, <1>8

(* The user name that DecodeName accepts for an account is the one that    *)
(* EncodeName gives to the account.                                        *)
LEMMA DecodeThenEncode ==
    ASSUME NEW name \in Seq(Nat), DecodeName(name) # Invalid
    PROVE  EncodeName(DecodeName(name)) = name
  <1>1. CASE name = << >>
    <2>1. ~HasPrefix(<< >>)
      BY DEF HasPrefix
    <2> QED  BY <1>1, <2>1 DEF DecodeName
  <1>2. CASE name # << >> /\ ~HasPrefix(name)
    <2>1. DecodeName(name) = name /\ AllSimple(name)
      BY <1>2 DEF DecodeName
    <2> QED  BY <1>2, <2>1 DEF EncodeName
  <1>3. CASE HasPrefix(name)
    <2>1. PICK hex : hex = HexPart(name)
      OBVIOUS
    <2>2. hex \in Seq(Nat) /\ ENCODED_PREFIX \o hex = name
      BY <1>3, <2>1, PrefixAndHex
    <2>3. name # << >>
      BY <1>3 DEF HasPrefix
    <2>4. /\ DecodeName(name) = Bytes(hex)
          /\ Len(hex) % 2 = 0
          /\ \A i \in DOMAIN hex : HexCharValue(hex[i]) # -1
          /\ hex = << >> \/ ~AllSimple(Bytes(hex))
      BY <1>3, <2>1, <2>3 DEF DecodeName
    <2>5. /\ Bytes(hex) \in Seq(Nat)
          /\ 2 * Len(Bytes(hex)) = Len(hex)
          /\ [i \in 1 .. 2 * Len(Bytes(hex)) |->
                 LET c == Bytes(hex)[(i + 1) \div 2]
                 IN  HexDigit(IF i % 2 = 1 THEN c \div 16 ELSE c % 16)] = hex
      BY <2>2, <2>4, BytesRoundTrip
    <2>6. PICK b : b = Bytes(hex)
      OBVIOUS
    <2>7. ~(b # << >> /\ AllSimple(b))
      <3>1. CASE hex = << >>
        BY <2>5, <2>6, <3>1
      <3>2. CASE ~AllSimple(Bytes(hex))
        BY <2>6, <3>2
      <3> QED  BY <2>4, <3>1, <3>2
    <2>8. EncodeName(b) = ENCODED_PREFIX \o hex
      BY <2>5, <2>6, <2>7 DEF EncodeName
    <2> QED  BY <2>2, <2>4, <2>6, <2>8
  <1> QED  BY <1>1, <1>2, <1>3

(* "Prevent multiple XMPP names to resolve to the same decoded one"        *)
(* (Authenticator's DecodeName): no account has two user names.            *)
THEOREM AccountHasOneName ==
    ASSUME NEW u \in Seq(Nat), NEW v \in Seq(Nat),
           DecodeName(u) # Invalid, DecodeName(u) = DecodeName(v)
    PROVE  u = v
  BY DecodeThenEncode

(***************************************************************************)
(* The inductive invariant                                                 *)
(***************************************************************************)
(* Sessions of the peers have the names of users.                          *)
PeersInv == present \subseteq peers /\ \A j \in peers : j.user \in Seq(Nat)

(* Whoever has orders in the book, or has had them when the user took one, *)
(* is known to the Authenticator, with a JID of that account.              *)
KnownInv ==
    /\ Invalid \notin DOMAIN knownJids
    /\ \A a \in DOMAIN knownJids : AccountOf(knownJids[a]) = a
    /\ DOMAIN book \subseteq DOMAIN knownJids
    /\ take # NoTake => take \in DOMAIN knownJids
    /\ raced \in BOOLEAN

DaemonInv == PeersInv /\ KnownInv /\ PrivateToOwner /\ BookOfPresent /\ MakerReachable

(* Authenticate forgets nobody, remembers whom it has authenticated, and   *)
(* only as the owner of the account.                                       *)
LEMMA AuthenticateKnows ==
    ASSUME NEW j, j.user \in Seq(Nat), Authenticate(j), KnownInv,
           \A a \in DOMAIN knownJids : OwnedBy(knownJids[a], a)
    PROVE  /\ DOMAIN knownJids' = DOMAIN knownJids \cup ({AccountOf(j)} \ {Invalid})
           /\ \A a \in DOMAIN knownJids' : OwnedBy(knownJids'[a], a)
           /\ raced' \in BOOLEAN
           /\ Invalid \notin DOMAIN knownJids'
           /\ \A a \in DOMAIN knownJids' : AccountOf(knownJids'[a]) = a
           /\ \A a \in DOMAIN knownJids :
                knownJids'[a] = IF a = AccountOf(j) THEN j ELSE knownJids[a]
  <1>1. PICK a : a = AccountOf(j)
    OBVIOUS
  <1>2. knownJids' = [b \in DOMAIN knownJids \cup ({a} \ {Invalid}) |->
                        IF b = a THEN j ELSE knownJids[b]]
    BY <1>1 DEF Authenticate
  <1>3. DOMAIN knownJids' = DOMAIN knownJids \cup ({a} \ {Invalid})
    BY <1>2
  <1>4. ASSUME a # Invalid PROVE OwnedBy(j, a)
    <2>1. j.server \in xidServers /\ a = DecodeName(j.user)
      BY <1>1, <1>4 DEF AccountOf
    <2>2. EncodeName(a) = j.user
      BY <1>4, <2>1, DecodeThenEncode
    <2> QED  BY <2>1, <2>2 DEF OwnedBy
  <1>5. ASSUME NEW b \in DOMAIN knownJids' PROVE OwnedBy(knownJids'[b], b)
    <2>1. CASE b = a
      <3>1. a # Invalid
        BY <1>3, <1>5, <2>1 DEF KnownInv
      <3> QED  BY <1>2, <1>3, <1>4, <1>5, <2>1, <3>1
    <2>2. CASE b # a
      BY <1>2, <1>3, <1>5, <2>2
    <2> QED  BY <2>1, <2>2
  <1>6. raced' \in BOOLEAN
    BY DEF Authenticate
  <1>7. \A b \in DOMAIN knownJids : knownJids'[b] = IF b = a THEN j ELSE knownJids[b]
    BY <1>2, <1>3
  <1>8. \A b \in DOMAIN knownJids' : AccountOf(knownJids'[b]) = b
    BY <1>1, <1>2, <1>3 DEF KnownInv
  <1> QED  BY <1>1, <1>3, <1>5, <1>6, <1>7, <1>8 DEF KnownInv

(* A known account has a JID to send to, and it is that of the owner.      *)
LEMMA FoundOwned ==
    ASSUME NEW known, \A a \in DOMAIN known : OwnedBy(known[a], a), NEW a
    PROVE  /\ Found(known, a) # NoJid => OwnedBy(Found(known, a), a)
           /\ a \in DOMAIN known => Found(known, a) # NoJid
  <1>1. CASE a \notin DOMAIN known
    BY <1>1 DEF Found
  <1>2. CASE a \in DOMAIN known
    <2>1. Found(known, a) = known[a] /\ OwnedBy(known[a], a)
      BY <1>2 DEF Found
    <2>2. known[a].server = "xid"
      BY <2>1 DEF OwnedBy, xidServers
    <2>3. NoJid.server = ""
      BY DEF NoJid
    <2> QED  BY <2>1, <2>2, <2>3
  <1> QED  BY <1>1, <1>2

LEMMA InitDaemon == Init => DaemonInv
  <1> SUFFICES ASSUME Init PROVE DaemonInv
    OBVIOUS
  <1>1. PICK user \in Users : peers = Sessions(user)
    BY DEF Init
  <1>2. PeersInv
    BY <1>1, UsersAssumption DEF Init, PeersInv, Sessions
  <1>3. DOMAIN knownJids = {DecodeName(MyUser)} /\ knownJids[DecodeName(MyUser)] = MyJid
        /\ DOMAIN book = {} /\ take = NoTake /\ raced = FALSE
        /\ sent.jid = NoJid
    BY DEF Init
  <1>4. KnownInv
    <2>1. AccountOf(MyJid) = DecodeName(MyUser)
      BY DEF AccountOf, MyJid, xidServers
    <2> QED  BY <1>3, <2>1, MyUserAssumption DEF KnownInv
  <1>5. EncodeName(DecodeName(MyUser)) = MyUser
    BY UsersAssumption, MyUserAssumption, DecodeThenEncode
  <1>6. OwnedBy(MyJid, DecodeName(MyUser))
    BY <1>5 DEF OwnedBy, MyJid, xidServers
  <1>7. PrivateToOwner
    BY <1>3, <1>6 DEF PrivateToOwner
  <1>8. BookOfPresent /\ MakerReachable
    BY <1>3 DEF BookOfPresent, MakerReachable
  <1> QED  BY <1>2, <1>4, <1>7, <1>8 DEF DaemonInv

(* A broadcast: the sender is known before its orders are in the book, and *)
(* is in the room.                                                         *)
LEMMA MessageStep ==
    ASSUME DaemonInv, NEW j \in peers, NEW ext \in BOOLEAN, NEW valid \in BOOLEAN,
           HandleMessage(j, ext, valid)
    PROVE  DaemonInv'
  <1>1. PICK a : a = AccountOf(j)
    OBVIOUS
  <1>2. /\ j \in present /\ Authenticate(j)
        /\ book' = IF a = Invalid \/ ~ext THEN book ELSE IF valid THEN Updated(a) ELSE Erased(a)
        /\ unseen' = IF a # Invalid /\ ext THEN unseen \ {a} ELSE unseen
        /\ peers' = peers /\ present' = present /\ take' = take /\ sent' = sent
        /\ gone' = gone \ {j}
    BY <1>1 DEF HandleMessage
  <1>3. /\ DOMAIN knownJids' = DOMAIN knownJids \cup ({a} \ {Invalid})
        /\ \A b \in DOMAIN knownJids' : OwnedBy(knownJids'[b], b)
        /\ raced' \in BOOLEAN
        /\ Invalid \notin DOMAIN knownJids'
        /\ \A b \in DOMAIN knownJids' : AccountOf(knownJids'[b]) = b
        /\ \A b \in DOMAIN knownJids : knownJids'[b] = IF b = a THEN j ELSE knownJids[b]
    BY <1>1, <1>2, AuthenticateKnows DEF DaemonInv, PeersInv, PrivateToOwner
  <1>4. DOMAIN book' = IF a = Invalid \/ ~ext THEN DOMAIN book
                       ELSE IF valid THEN DOMAIN book \cup {a} ELSE DOMAIN book \ {a}
    BY <1>2 DEF Updated, Erased
  <1>5. PeersInv'
    BY <1>2 DEF DaemonInv, PeersInv
  <1>6. KnownInv'
    BY <1>2, <1>3, <1>4 DEF DaemonInv, KnownInv
  <1>7. PrivateToOwner'
    BY <1>2, <1>3 DEF DaemonInv, PrivateToOwner
  <1>8. BookOfPresent'
    <2> SUFFICES ASSUME NEW b \in DOMAIN book'
                 PROVE  b \in unseen' \/ \E i \in present : AccountOf(i) = b
      BY <1>2 DEF BookOfPresent
    <2>1. CASE b = a
      BY <1>1, <1>2, <2>1
    <2>2. CASE b # a
      <3>1. b \in DOMAIN book
        BY <1>4, <2>2
      <3>2. b \in unseen \/ \E i \in present : AccountOf(i) = b
        BY <3>1 DEF DaemonInv, BookOfPresent
      <3> QED  BY <1>2, <2>2, <3>2
    <2> QED  BY <2>1, <2>2
  <1>9. MakerReachable'
    <2> SUFFICES ASSUME NEW b \in DOMAIN book'
                 PROVE  b \in unseen' \/ knownJids'[b] \notin gone'
      BY DEF MakerReachable
    <2>1. CASE b = a
      <3>1. b \in DOMAIN knownJids' /\ b # Invalid
        BY <1>6 DEF KnownInv
      <3>2. knownJids'[b] = j
        BY <1>1, <1>2, <2>1, <3>1 DEF Authenticate
      <3> QED  BY <1>2, <3>2
    <2>2. CASE b # a
      <3>1. b \in DOMAIN book /\ b \in DOMAIN knownJids
        BY <1>4, <2>2 DEF DaemonInv, KnownInv
      <3>2. b \in unseen \/ knownJids[b] \notin gone
        BY <3>1 DEF DaemonInv, MakerReachable
      <3> QED  BY <1>2, <1>3, <2>2, <3>1, <3>2
    <2> QED  BY <2>1, <2>2
  <1> QED  BY <1>5, <1>6, <1>7, <1>8, <1>9 DEF DaemonInv

(* A private message: the reply goes to the sender's account.              *)
LEMMA PrivateStep ==
    ASSUME DaemonInv, NEW j \in peers, NEW replies \in BOOLEAN, HandlePrivate(j, replies)
    PROVE  DaemonInv'
  <1>1. PICK a : a = AccountOf(j)
    OBVIOUS
  <1>2. /\ Authenticate(j)
        /\ SendReply(a) \/ UNCHANGED sent
        /\ peers' = peers /\ present' = present /\ take' = take
        /\ book' = book /\ unseen' = unseen /\ gone' = gone \ {j}
    BY <1>1 DEF HandlePrivate
  <1>3. /\ DOMAIN knownJids' = DOMAIN knownJids \cup ({a} \ {Invalid})
        /\ \A b \in DOMAIN knownJids' : OwnedBy(knownJids'[b], b)
        /\ raced' \in BOOLEAN
        /\ Invalid \notin DOMAIN knownJids'
        /\ \A b \in DOMAIN knownJids' : AccountOf(knownJids'[b]) = b
        /\ \A b \in DOMAIN knownJids : knownJids'[b] = IF b = a THEN j ELSE knownJids[b]
    BY <1>1, <1>2, AuthenticateKnows DEF DaemonInv, PeersInv, PrivateToOwner
  <1>4. PeersInv'
    BY <1>2 DEF DaemonInv, PeersInv
  <1>5. KnownInv'
    BY <1>2, <1>3 DEF DaemonInv, KnownInv
  <1>6. PrivateToOwner'
    <2>1. CASE UNCHANGED sent
      BY <1>3, <2>1 DEF DaemonInv, PrivateToOwner
    <2>2. CASE SendReply(a) /\ ~UNCHANGED sent
      <3>1. PICK known : known = knownJids'
        OBVIOUS
      <3>2. sent'.account = a /\ sent'.jid = Found(known, a)
        BY <2>2, <3>1 DEF SendReply
      <3>3. Found(known, a) # NoJid => OwnedBy(Found(known, a), a)
        BY <1>3, <3>1, FoundOwned
      <3> QED  BY <1>3, <3>2, <3>3 DEF PrivateToOwner
    <2> QED  BY <1>2, <2>1, <2>2
  <1>7. BookOfPresent'
    BY <1>2 DEF DaemonInv, BookOfPresent
  <1>8. MakerReachable'
    BY <1>2, <1>3 DEF DaemonInv, KnownInv, MakerReachable
  <1> QED  BY <1>4, <1>5, <1>6, <1>7, <1>8 DEF DaemonInv

(* A departure: heard, the account's orders are erased; unheard, they are  *)
(* what unseen is for.                                                     *)
LEMMA LeavesStep ==
    ASSUME DaemonInv, NEW j \in peers, Leaves(j)
    PROVE  DaemonInv'
  <1>1. PICK a : a = AccountOf(j)
    OBVIOUS
  <1>2. /\ peers' = peers /\ present' = present \ {j} /\ take' = take /\ sent' = sent
        /\ gone' = gone \cup {j}
    BY DEF Leaves
  <1>3. PeersInv'
    BY <1>2 DEF DaemonInv, PeersInv
  <1>4. ASSUME NEW b \in DOMAIN book, b # a
        PROVE  b \in unseen \/ \E i \in present' : AccountOf(i) = b
    <2>1. b \in unseen \/ \E i \in present : AccountOf(i) = b
      BY DEF DaemonInv, BookOfPresent
    <2> QED  BY <1>1, <1>2, <1>4, <2>1
  <1>5. ASSUME NEW b \in DOMAIN book, b # a
        PROVE  b \in unseen \/ knownJids[b] \notin gone'
    <2>1. AccountOf(knownJids[b]) = b
      BY DEF DaemonInv, KnownInv
    <2>2. b \in unseen \/ knownJids[b] \notin gone
      BY DEF DaemonInv, MakerReachable
    <2> QED  BY <1>1, <1>2, <1>5, <2>1, <2>2
  <1>6. CASE Hears
    <2>1. Authenticate(j) /\ book' = Erased(a) /\ unseen' = unseen
      BY <1>1, <1>6 DEF Leaves, HandleDisconnect
    <2>2. /\ DOMAIN knownJids' = DOMAIN knownJids \cup ({a} \ {Invalid})
          /\ \A b \in DOMAIN knownJids' : OwnedBy(knownJids'[b], b)
          /\ raced' \in BOOLEAN
          /\ Invalid \notin DOMAIN knownJids'
          /\ \A b \in DOMAIN knownJids' : AccountOf(knownJids'[b]) = b
          /\ \A b \in DOMAIN knownJids : knownJids'[b] = IF b = a THEN j ELSE knownJids[b]
      BY <1>1, <2>1, AuthenticateKnows DEF DaemonInv, PeersInv, PrivateToOwner
    <2>3. DOMAIN book' = DOMAIN book \ {a}
      BY <2>1 DEF Erased
    <2>4. KnownInv'
      BY <1>2, <2>2, <2>3 DEF DaemonInv, KnownInv
    <2>5. PrivateToOwner'
      BY <1>2, <2>2 DEF DaemonInv, PrivateToOwner
    <2>6. BookOfPresent'
      BY <1>4, <2>1, <2>3 DEF BookOfPresent
    <2>7. MakerReachable'
      BY <1>5, <2>1, <2>2, <2>3 DEF DaemonInv, KnownInv, MakerReachable
    <2> QED  BY <1>3, <2>4, <2>5, <2>6, <2>7 DEF DaemonInv
  <1>7. CASE ~Hears
    <2>1. /\ unseen' = unseen \cup ({a} \cap DOMAIN book)
          /\ knownJids' = knownJids /\ raced' = raced /\ book' = book
      BY <1>1, <1>7 DEF Leaves
    <2>2. KnownInv'
      BY <1>2, <2>1 DEF DaemonInv, KnownInv
    <2>3. PrivateToOwner'
      BY <1>2, <2>1 DEF DaemonInv, PrivateToOwner
    <2>4. BookOfPresent'
      BY <1>4, <2>1 DEF BookOfPresent
    <2>5. MakerReachable'
      BY <1>5, <2>1 DEF MakerReachable
    <2> QED  BY <1>3, <2>2, <2>3, <2>4, <2>5 DEF DaemonInv
  <1> QED  BY <1>6, <1>7

LEMMA DaemonStep ==
    ASSUME DaemonInv, [Next]_vars
    PROVE  DaemonInv'
  <1>0. CASE UNCHANGED vars
    BY <1>0 DEF vars, DaemonInv, PeersInv, KnownInv, PrivateToOwner, BookOfPresent, MakerReachable
  <1>1. ASSUME NEW j \in peers, Joins(j) PROVE DaemonInv'
    BY <1>1 DEF Joins, DaemonInv, PeersInv, KnownInv, PrivateToOwner, BookOfPresent, MakerReachable
  <1>2. CASE ConnectionChanges
    BY <1>2 DEF ConnectionChanges, DaemonInv, PeersInv, KnownInv, PrivateToOwner, BookOfPresent, MakerReachable
  <1>3. CASE Tick
    <2>1. DOMAIN book' = DOMAIN book
      BY <1>3 DEF Tick
    <2> QED  BY <1>3, <2>1 DEF Tick, DaemonInv, PeersInv, KnownInv, PrivateToOwner, BookOfPresent, MakerReachable
  <1>4. CASE RunTimeout
    <2>1. DOMAIN book' \subseteq DOMAIN book
      BY <1>4 DEF RunTimeout
    <2>2. KnownInv' /\ PeersInv' /\ PrivateToOwner'
      BY <1>4, <2>1 DEF RunTimeout, DaemonInv, PeersInv, KnownInv, PrivateToOwner
    <2>3. BookOfPresent' /\ MakerReachable'
      BY <1>4, <2>1 DEF RunTimeout, DaemonInv, BookOfPresent, MakerReachable
    <2> QED  BY <2>2, <2>3 DEF DaemonInv
  <1>5. ASSUME NEW a \in DOMAIN book, TakeOrder(a) PROVE DaemonInv'
    BY <1>5 DEF TakeOrder, DaemonInv, PeersInv, KnownInv, PrivateToOwner, BookOfPresent, MakerReachable
  <1>6. CASE TakeOrderSends
    <2>1. /\ peers' = peers /\ present' = present /\ knownJids' = knownJids /\ book' = book
          /\ unseen' = unseen /\ gone' = gone /\ raced' = raced /\ take' = NoTake
      BY <1>6 DEF TakeOrderSends
    <2>2. PeersInv' /\ KnownInv' /\ BookOfPresent' /\ MakerReachable'
      BY <2>1 DEF DaemonInv, PeersInv, KnownInv, BookOfPresent, MakerReachable
    <2>3. PICK j \in LookupJid(take) :
             sent' = sent \/ sent' = [account |-> take, jid |-> j]
      BY <1>6 DEF TakeOrderSends
    <2>4. j = NoJid \/ j = Found(knownJids, take)
      BY DEF LookupJid
    <2>5. j # NoJid => OwnedBy(j, take)
      BY <2>4, FoundOwned DEF DaemonInv, PrivateToOwner
    <2>6. sent'.jid # NoJid => OwnedBy(sent'.jid, sent'.account)
      BY <2>3, <2>5 DEF DaemonInv, PrivateToOwner
    <2>7. PrivateToOwner'
      BY <2>1, <2>6 DEF DaemonInv, PrivateToOwner
    <2> QED  BY <2>2, <2>7 DEF DaemonInv
  <1>7. CASE UpdateOrders
    BY <1>7 DEF UpdateOrders, DaemonInv, PeersInv, KnownInv, PrivateToOwner, BookOfPresent, MakerReachable
  <1> QED
    BY <1>0, <1>1, <1>2, <1>3, <1>4, <1>5, <1>6, <1>7, MessageStep, PrivateStep, LeavesStep
    DEF Next

(***************************************************************************)
(* Theorems                                                                *)
(***************************************************************************)
(* The inductive invariant of the daemon.                                  *)
THEOREM DaemonInvariant == Spec => []DaemonInv
  <1>1. DaemonInv /\ [Next]_vars => DaemonInv'
    BY DaemonStep
  <1> QED  BY <1>1, InitDaemon, PTL DEF Spec

(* A processing message for an account goes only to sessions of its owner  *)
(* on a trusted server (Authenticator::Authenticate and LookupJid).        *)
THEOREM PrivateMessages == Spec => []PrivateToOwner
  <1>1. DaemonInv => PrivateToOwner
    BY DEF DaemonInv
  <1> QED  BY <1>1, DaemonInvariant, PTL

(* The maker of an order that the user takes has a JID to write to, except *)
(* in a data race with a handler (Authenticator::LookupJid).               *)
THEOREM MakerIsFound == Spec => []TakeFindsMaker
  <1>1. ASSUME DaemonInv, take # NoTake, ~raced PROVE NoJid \notin LookupJid(take)
    <2>1. take \in DOMAIN knownJids /\ \A a \in DOMAIN knownJids : OwnedBy(knownJids[a], a)
      BY <1>1 DEF DaemonInv, KnownInv, PrivateToOwner
    <2>2. Found(knownJids, take) # NoJid
      BY <2>1, FoundOwned
    <2>3. LookupJid(take) = {Found(knownJids, take)}
      BY <1>1 DEF LookupJid
    <2> QED  BY <2>2, <2>3
  <1>2. DaemonInv => TakeFindsMaker
    BY <1>1 DEF TakeFindsMaker
  <1> QED  BY <1>2, DaemonInvariant, PTL

(* The JID known of the maker of an order in the book is not that of a     *)
(* session that has left, unless a departure has escaped us                *)
(* (Authenticator::Authenticate, HandleDisconnect).                        *)
THEOREM MakerIsReachable == Spec => []MakerReachable
  <1>1. DaemonInv => MakerReachable
    BY DEF DaemonInv
  <1> QED  BY <1>1, DaemonInvariant, PTL

(* The book holds orders only of accounts that are in the room, or whose   *)
(* departure we have not been told of (HandleDisconnect).                  *)
THEOREM BookIsOfPresent == Spec => []BookOfPresent
  <1>1. DaemonInv => BookOfPresent
    BY DEF DaemonInv
  <1> QED  BY <1>1, DaemonInvariant, PTL
=============================================================================
