------------------------------- MODULE AppendRing -------------------------------
(***************************************************************************)
(* What the transactional append of src/internal/jsonl promises its        *)
(* callers: a bounded sequence of records that only grows at its end and   *)
(* loses whole files at its beginning. A record that is published may      *)
(* still be undone, by a power loss or because its append failed, until it *)
(* is durable, and with it the loss of what it displaced; a record that is *)
(* acknowledged is durable.                                                *)
(***************************************************************************)
EXTENDS Naturals, Sequences

CONSTANTS Records, MaxArchives, RecordsPerFile

VARIABLES log,        \* the records a reader finds after recovery
          fallbacks,  \* the records a reader may find once the last is taken back
          acked       \* the records whose append has returned

vars == <<log, fallbacks, acked>>

Init == log = <<>> /\ fallbacks = {<<>>} /\ acked = {}

\* The ring is full: its oldest file goes.
Bounded(s) == IF Len(s) < (MaxArchives + 1) * RecordsPerFile THEN s
              ELSE SubSeq(s, RecordsPerFile + 1, Len(s))

Follows(r, s) == \/ s = <<>> /\ r.seq = 1
                 \/ s # <<>> /\ r.seq = s[Len(s)].seq + 1 /\ r.prev = s[Len(s)].id

Publish == /\ Len(log') > 0
           /\ LET r == log'[Len(log')] IN
                 /\ r \in Records /\ Follows(r, log)
                 /\ log' = Append(Bounded(log), r)
           /\ fallbacks' = fallbacks \cup {log'}
           /\ UNCHANGED acked

TakeBack == /\ log' \in fallbacks
            /\ fallbacks' \in {{log'}, fallbacks}
            /\ UNCHANGED acked

Flush == fallbacks' = {log} /\ UNCHANGED <<log, acked>>

Acknowledge == /\ log # <<>>
               /\ fallbacks' = {log}
               /\ acked' = acked \cup {log[Len(log)]}
               /\ UNCHANGED log

Next == Publish \/ TakeBack \/ Flush \/ Acknowledge

Spec == Init /\ [][Next]_vars

Keeps(s, r) == /\ s # <<>>
               /\ s[Len(s)].seq >= r.seq
               /\ r.seq >= s[1].seq => \E k \in 1 .. Len(s) : s[k] = r

\* docs/documentation.md:3050-3065, AppendTransactionContextWithLayout: a record
\* whose append has returned is found by every later reader, after any power
\* loss too, unless its file has rotated away since.
AcknowledgedKept == \A r \in acked, s \in fallbacks \cup {log} : Keeps(s, r)
=============================================================================
