--------------------------- MODULE Authenticator ---------------------------
(***************************************************************************)
(* How the user name of a JID stands for a Xaya account (XID names): an    *)
(* account of lower-case letters and digits is its own user name, any      *)
(* other is encoded as "x-" and the hex digits of its bytes.  Names and    *)
(* accounts are sequences of character codes.                              *)
(***************************************************************************)
EXTENDS Integers, Sequences

(* What DecodeName returns for a name that is none; no account has it.     *)
Invalid == <<-1>>

ENCODED_PREFIX == <<120, 45>>     \* "x-"

IsSimpleChar(c) == c \in 48 .. 57 \/ c \in 97 .. 122

HexCharValue(c) ==
    CASE c \in 48 .. 57  -> c - 48
      [] c \in 97 .. 102 -> 10 + c - 97
      [] OTHER -> -1

HasPrefix(name) == Len(name) >= 2 /\ SubSeq(name, 1, 2) = ENCODED_PREFIX

AllSimple(s) == \A i \in DOMAIN s : IsSimpleChar(s[i])

HexPart(name) == SubSeq(name, 3, Len(name))

Bytes(hex) == [i \in 1 .. Len(hex) \div 2 |->
                 16 * HexCharValue(hex[2 * i - 1]) + HexCharValue(hex[2 * i])]

(* Mutant: all-simple accounts may be encoded as well.                     *)
DecodeNameLoose(name) ==
    LET hex == HexPart(name) IN
    CASE name = << >> -> Invalid
      [] name # << >> /\ ~HasPrefix(name) -> IF AllSimple(name) THEN name ELSE Invalid
      [] HasPrefix(name) ->
           IF Len(hex) % 2 = 0 /\ \A i \in DOMAIN hex : HexCharValue(hex[i]) # -1
           THEN Bytes(hex) ELSE Invalid

DecodeName(name) ==
    LET hex     == HexPart(name)
        decoded == Bytes(hex)
    IN  CASE name = << >> -> Invalid
          [] name # << >> /\ ~HasPrefix(name) ->
               IF AllSimple(name) THEN name ELSE Invalid
          [] HasPrefix(name) ->
               IF /\ Len(hex) % 2 = 0
                  /\ \A i \in DOMAIN hex : HexCharValue(hex[i]) # -1
                  /\ hex = << >> \/ ~AllSimple(decoded)
               THEN decoded ELSE Invalid

(* The reference: the one user name of an account.                         *)
HexDigit(v) == IF v < 10 THEN 48 + v ELSE 97 + v - 10
EncodeName(account) ==
    IF account # << >> /\ AllSimple(account)
    THEN account
    ELSE ENCODED_PREFIX \o
         [i \in 1 .. 2 * Len(account) |->
            LET c == account[(i + 1) \div 2]
            IN  HexDigit(IF i % 2 = 1 THEN c \div 16 ELSE c % 16)]
=============================================================================
