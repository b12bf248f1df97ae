------------------------------ MODULE KeyValue ------------------------------
(***************************************************************************)
(* What a Memcache::Client promises to its callers (Client.hh): a store of *)
(* items that several clients use, where every call takes effect at one    *)
(* moment between its start and its end and gives the result its comment   *)
(* states.  A call throws when its connection fails; whether it takes      *)
(* effect is then unknown, but it does so at most once.                    *)
(***************************************************************************)
EXTENDS Integers, Sequences

CONSTANTS
  Clients,
  Requests, \* what a client may ask for
  Entries,  \* how many statistics the server has
  Top       \* the largest counter value: counters wrap at 64 bits in the code

VARIABLES
  store,    \* the items: a function from the keys that exist
  cas,      \* the server's last cas value
  broken,   \* the clients whose connection is not usable
  pending,  \* of each client, the call in progress
  given,    \* of each client, the result of its last call
  orphans   \* requests of calls that have thrown and that may still take effect

\* A value that is no number.
Text == -1

Item == [val : Text..Top, cas : Nat]

\* The result of a call: what it says, and a number or value.
Result(says, val, c) == [says |-> says, val |-> val, cas |-> c]
Threw == Result("threw", 0, 0)

-----------------------------------------------------------------------------
(* The server: what it answers to request r in store s, and the store then *)

Has(s, r) == r.key \in DOMAIN s

Stale(s, r) == Has(s, r) /\ r.cas # 0 /\ r.cas # s[r.key].cas

Status(s, r) ==
  CASE r.op \in {"Get", "GetAndTouch", "Touch"} /\ ~Has(s, r) -> "KEY_NOT_FOUND"
    [] r.op = "Set" /\ r.cas # 0 /\ ~Has(s, r)                -> "KEY_NOT_FOUND"
    [] r.op = "Add" /\ Has(s, r)                              -> "KEY_EXISTS"
    [] r.op \in {"Replace", "Delete"} /\ ~Has(s, r)           -> "KEY_NOT_FOUND"
    [] r.op \in {"Set", "Replace", "Delete"} /\ Stale(s, r)   -> "KEY_EXISTS"
    [] r.op \in {"Increment", "Decrement"} /\ ~Has(s, r) /\ ~r.create -> "KEY_NOT_FOUND"
    [] r.op \in {"Increment", "Decrement"} /\ Has(s, r) /\ s[r.key].val = Text
                                                              -> "NON_NUMERIC_INCR_DECR"
    [] r.op \in {"Append", "Prepend"} /\ ~Has(s, r)           -> "NOT_STORED"
    [] OTHER                                                  -> "OK"

Count(s, r) ==
  IF ~Has(s, r) THEN r.initial
  ELSE IF r.op = "Increment" THEN (s[r.key].val + r.val) % (Top + 1)
  ELSE IF s[r.key].val < r.val THEN 0 ELSE s[r.key].val - r.val

\* The value that an accepted request writes.
NewValue(s, r) ==
  CASE r.op \in {"Set", "Add", "Replace"}    -> r.val
    [] r.op \in {"Increment", "Decrement"}   -> Count(s, r)
    [] OTHER                                 -> Text

Writes == {"Set", "Add", "Replace", "Increment", "Decrement", "Append", "Prepend"}

After(s, r, c) ==
  IF Status(s, r) # "OK" THEN s
  ELSE CASE r.op = "Flush"  -> [k \in {} |-> s[k]]
         [] r.op = "Delete" -> [k \in DOMAIN s \ {r.key} |-> s[k]]
         [] r.op \in Writes -> [k \in DOMAIN s \cup {r.key} |->
                                 IF k = r.key THEN [val |-> NewValue(s, r), cas |-> c] ELSE s[k]]
         [] OTHER           -> s

-----------------------------------------------------------------------------
(* What a call means to the caller *)

\* Reading gives the item; writing says whether the key was written, deleting
\* whether it was deleted from what the caller had read; counting gives the new
\* value.  A conditional request for a key that does not exist, and deleting
\* such a key, is an exception.
Meaning(s, r) ==
  LET ok == Status(s, r) = "OK"
  IN  CASE r.op \in {"Get", "GetAndTouch"} ->
             IF ok THEN Result("found", s[r.key].val, s[r.key].cas) ELSE Result("missing", 0, 0)
        [] r.op \in {"Set", "Add", "Replace", "Delete"} ->
             IF ok THEN Result("true", 0, 0)
             ELSE IF r.op \in {"Set", "Delete"} /\ ~Has(s, r) THEN Threw
             ELSE Result("false", 0, 0)
        [] r.op \in {"Increment", "Decrement"} /\ ok -> Result("number", Count(s, r), 0)
        [] r.op = "Version" -> Result("text", Text, 0)
        [] r.op = "Stat"    -> Result("entries", Entries, 0)
        [] OTHER -> IF ok THEN Result("done", 0, 0) ELSE Threw

-----------------------------------------------------------------------------
(* The calls *)

NoCall == [phase |-> "none"]
vars == <<store, cas, broken, pending, given, orphans>>

Init ==
  /\ \A k \in DOMAIN store : store[k].cas <= cas
  /\ broken = Clients
  /\ pending = [c \in Clients |-> NoCall]
  /\ given = [c \in Clients |-> Result("done", 0, 0)]
  /\ orphans = <<>>

Invoke(c, r) ==
  /\ pending[c] = NoCall
  /\ pending' = [pending EXCEPT ![c] = [phase |-> "called", r |-> r]]
  /\ UNCHANGED <<store, cas, broken, given, orphans>>

\* The moment at which the call takes effect.
Effect(c) ==
  /\ pending[c].phase = "called" /\ c \notin broken
  /\ store' = After(store, pending[c].r, cas + 1) /\ cas' = cas + 1
  /\ pending' = [pending EXCEPT ![c] =
                   [phase |-> "effective", result |-> Meaning(store, pending[c].r)]]
  /\ UNCHANGED <<broken, given, orphans>>

\* The server refuses: it is busy, or out of memory.
Refusal(c) ==
  /\ pending[c].phase = "called" /\ c \notin broken
  /\ pending' = [pending EXCEPT ![c] = [phase |-> "effective", result |-> Threw]]
  /\ UNCHANGED <<store, cas, broken, given, orphans>>

\* The call ends with the result that it had when it took effect.
Return(c) ==
  /\ pending[c].phase = "effective"
  /\ given' = [given EXCEPT ![c] = pending[c].result]
  /\ pending' = [pending EXCEPT ![c] = NoCall]
  /\ UNCHANGED <<store, cas, broken, orphans>>

\* The connection fails; what was sent may still arrive.
Fail(c) ==
  /\ c \notin broken
  /\ broken' = broken \cup {c}
  /\ \E sent \in BOOLEAN :
       orphans' = IF pending[c].phase = "called" /\ sent
                  THEN Append(orphans, pending[c].r) ELSE orphans
  /\ UNCHANGED <<store, cas, pending, given>>

\* A call on a connection that is not usable throws.
Throw(c) ==
  /\ c \in broken
  /\ pending' = [pending EXCEPT ![c] = NoCall]
  /\ given' = [given EXCEPT ![c] = Threw]
  /\ UNCHANGED <<store, cas, broken, orphans>>

Connect(c) ==
  /\ c \in broken /\ pending[c] = NoCall
  /\ broken' = broken \ {c}
  /\ UNCHANGED <<store, cas, pending, given, orphans>>

LateEffect(i) ==
  /\ orphans' = SubSeq(orphans, 1, i - 1) \o SubSeq(orphans, i + 1, Len(orphans))
  /\ store' = After(store, orphans[i], cas + 1) /\ cas' = cas + 1
  /\ UNCHANGED <<broken, pending, given>>

Next ==
  \/ \E c \in Clients : \/ \E r \in Requests : Invoke(c, r)
                        \/ Effect(c) \/ Refusal(c) \/ Return(c) \/ Fail(c) \/ Throw(c) \/ Connect(c)
  \/ \E i \in DOMAIN orphans : LateEffect(i)

Spec == Init /\ [][Next]_vars
=============================================================================
