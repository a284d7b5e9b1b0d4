------------------------------ MODULE MCDaemon ------------------------------
(* Daemon for TLC: user names that are no names, all kinds of names, and   *)
(* encodings that could stand for the same account as another name.        *)
EXTENDS Daemon, SequencesExt

Digits == {49, 50, 54, 68, 100}     \* "1", "2", "6", "D", "d"

MCUsers == SeqOf({45, 97, 120}, 2)
           \cup {ENCODED_PREFIX \o s : s \in SeqOf(Digits, 3)}
           \cup {ENCODED_PREFIX \o <<54, 49>> \o s : s \in SeqOf(Digits, 2)}
MCMyUser == <<109>>
=============================================================================
