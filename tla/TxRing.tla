------------------------------- MODULE TxRing -------------------------------
(***************************************************************************)
(* The log ring: fputc (systemUartInit.c) puts every character the         *)
(* firmware prints into a ring, from any thread and from interrupts, and   *)
(* tcp_send_thread (test_lwip_seq_api.c) sends what is pending.  The       *)
(* producer never waits; it runs in a critical section, the sender takes   *)
(* no lock, so a character may come between any two of its accesses.       *)
(*                                                                         *)
(* The n-th character printed into a ring is the number n, a slot that was *)
(* only zeroed holds 0: that tells lost, repeated and invented characters  *)
(* apart.                                                                  *)
(***************************************************************************)
EXTENDS Integers, Sequences

CONSTANTS
  Size,        \* TX_BUFFER_SIZE
  IndexMod,    \* 2^16: the indices are unsigned short
  MaxPrinted   \* bound: characters printed into one ring

ASSUME SizeAssumption == Size \in Nat \ {0}
ASSUME IndexAssumption == IndexMod \in Nat /\ IndexMod > Size /\ IndexMod % Size = 0
ASSUME BoundAssumption == MaxPrinted \in Nat

VARIABLES
  ring,            \* txbuf->tx_buffer
  pWrite, pRead,   \* txbuf->p_write, txbuf->p_read
  pc,              \* the sender: "none" (txbuf is NULL), "connect", "loop",
                   \* "snap", "copy" or "update"
  rd, wt,          \* its copies p_rd and p_wt
  pos,             \* how many characters of this round are sent
  printed,         \* characters printed into this ring
  sent,            \* what the connection was given, in order
  overrun          \* at some time Size or more characters were pending

vars == <<ring, pWrite, pRead, pc, rd, wt, pos, printed, sent, overrun>>

Slots   == 0 .. Size - 1
Indices == 0 .. IndexMod - 1
Chars   == 0 .. MaxPrinted

\* The indices are 16 bits wide, wherever the sender is cut off.
TypeOK ==
  /\ ring \in [Slots -> Chars]
  /\ pWrite \in Indices /\ pRead \in Indices
  /\ pc \in {"none", "connect", "loop", "snap", "copy", "update"}
  /\ rd \in Indices /\ wt \in Indices
  /\ pos \in 0 .. Size
  /\ printed \in Chars
  /\ sent \in Seq(Chars)
  /\ overrun \in BOOLEAN

\* txbuf is NULL at first.
Init ==
  /\ ring = [s \in Slots |-> 0] /\ pWrite = 0 /\ pRead = 0
  /\ pc = "none" /\ rd = 0 /\ wt = 0 /\ pos = 0
  /\ printed = 0 /\ sent = <<>> /\ overrun = FALSE

-----------------------------------------------------------------------------
(* The producer. *)

\* Arithmetic on unsigned short.
Plus(i, n)  == (i + n) % IndexMod
Minus(i, j) == (i - j) % IndexMod

Fputc ==
  /\ pc # "none" /\ printed < MaxPrinted
  /\ printed' = printed + 1
  /\ ring' = [ring EXCEPT ![pWrite % Size] = printed']
  /\ pWrite' = Plus(pWrite, 1)
  /\ overrun' = (overrun \/ Minus(pWrite', pRead) >= Size)
  /\ UNCHANGED <<pRead, pc, rd, wt, pos, sent>>

-----------------------------------------------------------------------------
(* The sender. *)

Connected ==
  /\ pc = "connect" /\ pc' = "loop"
  /\ UNCHANGED <<ring, pWrite, pRead, rd, wt, pos, printed, sent, overrun>>

\* A mutant of Pending: the indices are compared as if they never wrapped.
PendingNoWrap == pWrite > pRead

Pending == pWrite # pRead

\* The test of the loop reads p_write, and so does the copy into p_wt: the
\* field is not volatile, the second read may reuse the value of the first.
See ==
  /\ pc = "loop" /\ Pending
  /\ wt' = pWrite /\ pc' = "snap"
  /\ UNCHANGED <<ring, pWrite, pRead, rd, pos, printed, sent, overrun>>

Snapshot ==
  /\ pc = "snap"
  /\ rd' = pRead /\ wt' \in {wt, pWrite}
  /\ pos' = 0 /\ pc' = "copy"
  /\ UNCHANGED <<ring, pWrite, pRead, printed, sent, overrun>>

Length == Minus(wt, rd) % Size

\* A mutant of Slot: a round starts behind the first pending character.
SlotAhead(i) == (rd + i + 1) % Size

\* One or two netconn_write: up to the end of the buffer, then from its start.
Slot(i) ==
  LET a == (rd % Size) + i IN IF a < Size THEN a ELSE a - Size

\* netconn_write copies a character; printing goes on meanwhile.
Copy ==
  /\ pc = "copy" /\ pos < Length
  /\ sent' = Append(sent, ring[Slot(pos)])
  /\ pos' = pos + 1
  /\ UNCHANGED <<ring, pWrite, pRead, pc, rd, wt, printed, overrun>>

Copied ==
  /\ pc = "copy" /\ pos = Length /\ pc' = "update"
  /\ UNCHANGED <<ring, pWrite, pRead, rd, wt, pos, printed, sent, overrun>>

\* A mutant of Update: what was printed meanwhile is taken for sent.
UpdateToLive ==
  /\ pc = "update"
  /\ pRead' = pWrite
  /\ pc' = "loop"
  /\ UNCHANGED <<ring, pWrite, rd, wt, pos, printed, sent, overrun>>

Update ==
  /\ pc = "update"
  /\ pRead' = Plus(pRead, Minus(wt, rd))
  /\ pc' = "loop"
  /\ UNCHANGED <<ring, pWrite, rd, wt, pos, printed, sent, overrun>>

\* The connection or the interface failed: the ring is freed.
Free ==
  /\ pc \in {"connect", "loop", "copy"} /\ pc' = "none"
  /\ UNCHANGED <<ring, pWrite, pRead, rd, wt, pos, printed, sent, overrun>>

\* The sender of the next connection: pvPortMalloc and memset.
Restart ==
  /\ pc = "none" /\ pc' = "connect"
  /\ ring' = [s \in Slots |-> 0] /\ pWrite' = 0 /\ pRead' = 0
  /\ rd' = 0 /\ wt' = 0 /\ pos' = 0
  /\ printed' = 0 /\ sent' = <<>> /\ overrun' = FALSE

Sender == Connected \/ See \/ Snapshot \/ Copy \/ Copied \/ Update
Next == Fputc \/ Sender \/ Free \/ Restart

Spec == Init /\ [][Next]_vars

\* The send thread runs; a write it started ends (in time or with an error).
FairSpec == Spec /\ WF_vars(Sender)

-----------------------------------------------------------------------------
(* Properties. *)

\* The ring keeps Size - 1 characters: as long as never more were pending,
\* what was sent is what was printed, each character once and in order, and
\* when nothing seems pending nothing is missing, also when the indices have
\* wrapped and while characters arrive during a round.
SentInOrder ==
  ~overrun =>
    /\ sent = [i \in 1 .. Len(sent) |-> i]
    /\ pc = "loop" /\ ~Pending => Len(sent) = printed

\* Even after an overrun only printed characters are sent, never a slot that
\* was not written.
NothingInvented == \A i \in 1 .. Len(sent) : sent[i] # 0

\* Without an overrun every character is sent, unless the connection ends.
PrintedIsSent ==
  \A n \in 1 .. MaxPrinted :
    (printed >= n /\ pc # "none" /\ ~overrun)
      ~> (Len(sent) >= n \/ overrun \/ pc = "none")
=============================================================================
