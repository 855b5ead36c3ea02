------------------------------ MODULE RingFifo ------------------------------
(***************************************************************************)
(* The character fifo of kernel/dev/tty.c, a ring buffer with two indices  *)
(* and a count, beside the sequence that Tty takes it for: `held' is what  *)
(* should be in it, and no step reads it.  Both functions run with         *)
(* interrupts off, so each is one action; a put into a full fifo and a get *)
(* from an empty one return -1 and change nothing.                         *)
(***************************************************************************)
EXTENDS Integers, Sequences

CONSTANTS RING_SIZE,   \* TTY_IBUF_SIZE, TTY_OBUF_SIZE
          RingChars

ASSUME RingAssumption == RING_SIZE \in Nat \ {0} /\ "NUL" \in RingChars

VARIABLES fifo,   \* buf, read, write, count
          held

ringVars == <<fifo, held>>

\* The buffers are static, so that they are zero at first.
RingInit ==
    /\ fifo = [buf |-> [i \in 0 .. RING_SIZE - 1 |-> "NUL"], read |-> 0, write |-> 0, count |-> 0]
    /\ held = <<>>

\* tty_open, of a terminal that is opened again too: the old characters stay
\* in the buffer.
tty_fifo_init ==
    /\ fifo' = [fifo EXCEPT !.read = 0, !.write = 0, !.count = 0]
    /\ held' = <<>>

After(i) == IF i + 1 >= RING_SIZE THEN 0 ELSE i + 1

\* Mutant: off by one, a full fifo takes one more.
tty_fifo_put_WhenFull(c) ==
    /\ fifo.count <= RING_SIZE
    /\ fifo' = [fifo EXCEPT !.buf[fifo.write] = c, !.write = After(@), !.count = @ + 1]
    /\ held' = Append(held, c)

tty_fifo_put(c) ==
    /\ fifo.count < RING_SIZE
    /\ fifo' = [fifo EXCEPT !.buf[fifo.write] = c, !.write = After(@), !.count = @ + 1]
    /\ held' = Append(held, c)

tty_fifo_get ==
    /\ fifo.count > 0
    /\ fifo' = [fifo EXCEPT !.read = After(@), !.count = @ - 1]
    /\ held' = Tail(held)

RingNext == tty_fifo_init \/ tty_fifo_get \/ \E c \in RingChars : tty_fifo_put(c)

RingSpec == RingInit /\ [][RingNext]_ringVars

-----------------------------------------------------------------------------

\* The place of the i-th character when reading begins at `read'.
RingPlace(read, i) ==
    IF read + i - 1 < RING_SIZE THEN read + i - 1 ELSE read + i - 1 - RING_SIZE

\* Whichever way puts and gets have gone round the ring, what the next gets return
\* is what was put and not yet got, in that order: no character is overwritten before
\* it is got, and an empty ring is told from a full one though their indices agree.
FifoHoldsItsChars ==
    /\ fifo.count = Len(held) /\ fifo.count <= RING_SIZE
    /\ fifo.write = RingPlace(fifo.read, fifo.count + 1)
    /\ \A i \in 1 .. Len(held) : fifo.buf[RingPlace(fifo.read, i)] = held[i]
=============================================================================
