------------------------------- MODULE Console -------------------------------
(***************************************************************************)
(* The console: kernel/console.c and kernel/uart.c, with the processes     *)
(* that read and write it, the interrupt handler, kernel printf() and the  *)
(* UART.                                                                   *)
(*                                                                         *)
(* cons.lock and uart_tx_lock are held over several steps, because the     *)
(* status register is read in one and a character written in a later one,  *)
(* by writers that hold different locks or none.                           *)
(***************************************************************************)
EXTENDS Integers, Sequences, FiniteSets

CONSTANTS
  Readers, Writers,
  INPUT_BUF_SIZE, UART_TX_BUF_SIZE,
  WORD,                            \* cons.r, w and e are unsigned: 2^32
  Keys,
  Counts,                          \* the n of read()
  Loads                            \* bounds: how many keys, bytes of write() and characters of printf()

ASSUME ConsoleAssumption ==
  /\ INPUT_BUF_SIZE \in Nat \ {0} /\ UART_TX_BUF_SIZE \in Nat \ {0}
  /\ WORD % INPUT_BUF_SIZE = 0 /\ WORD > INPUT_BUF_SIZE

Procs == Readers \cup Writers
Actors == Procs \cup {"intr", "printf"}     \* the PLIC lets one CPU have the UART's interrupt
NoOne == "none"
Echo == 0         \* a character not written by write()

VARIABLES
  cons, conslock,      \* struct cons
  tx, txlock,          \* uart_tx_buf as the bytes between uart_tx_r and uart_tx_w
  fifo,                \* characters in the UART's transmit FIFO
  rx, irq,             \* characters it has received, and its interrupt
  killed,
  th,                  \* what each actor is doing
  left,                \* what is left of the load
  put, sent            \* bytes of write() put in tx, and bytes sent

inVars == <<cons, conslock, rx, killed>>
outVars == <<tx, txlock, fifo, irq, put, sent>>
vars == <<inVars, outVars, th, left>>

Idle == [pc |-> "idle", n |-> 0, target |-> 0, c |-> "", echo |-> 0, ret |-> "idle"]

Init ==
  /\ cons = [buf |-> [k \in 0..INPUT_BUF_SIZE - 1 |-> ""], r |-> 0, w |-> 0, e |-> 0]
  /\ conslock = NoOne /\ txlock = NoOne
  /\ tx = << >> /\ fifo = << >> /\ rx = << >>
  /\ irq = FALSE
  /\ killed = {}
  /\ th = [a \in Actors |-> Idle]
  /\ left \in Loads
  /\ put = 0 /\ sent = 0

At(a, pc) == th[a].pc = pc
Goto(a, pc) == th' = [th EXCEPT ![a].pc = pc]

Inc(u) == (u + 1) % WORD
Dec(u) == (u - 1) % WORD
Minus(u, v) == (u - v) % WORD

\* LSR_TX_IDLE.
TxIdle == fifo = << >>

Asleep(a) == th[a].pc \in {"r_asleep", "w_asleep"}
\* wakeup(&cons.r) and wakeup(&uart_tx_r).
Woken(t, chan) == [a \in Actors |-> IF t[a].pc = chan \o "_asleep" THEN [t[a] EXCEPT !.pc = chan \o "_lock"] ELSE t[a]]

-----------------------------------------------------------------------------
(* The keyboard and the UART (external).                                   *)

Type(k) ==
  /\ left.keys > 0 /\ rx = << >>
  /\ left' = [left EXCEPT !.keys = @ - 1]
  /\ rx' = Append(rx, k)
  /\ irq' = TRUE
  /\ UNCHANGED <<cons, conslock, killed, tx, txlock, fifo, put, sent, th>>

\* A character leaves; an empty FIFO interrupts.
Transmit ==
  /\ fifo # << >>
  /\ fifo' = Tail(fifo)
  /\ irq' = (irq \/ Tail(fifo) = << >>)
  /\ sent' = IF Head(fifo) = Echo THEN sent ELSE sent + 1
  /\ UNCHANGED <<inVars, tx, txlock, put, th>>

-----------------------------------------------------------------------------
(* uartputc_sync(): echo by the interrupt handler, and printf().           *)

\* The spin until the status register shows idle.
SyncWait(a) ==
  /\ At(a, "sync") /\ TxIdle
  /\ Goto(a, "syncput")
  /\ UNCHANGED <<inVars, outVars>>

SyncPut(a) ==
  /\ At(a, "syncput")
  /\ fifo' = Append(fifo, Echo)
  /\ th' = [th EXCEPT ![a].echo = @ - 1, ![a].pc = IF th[a].echo > 1 THEN "sync" ELSE th[a].ret]
  /\ UNCHANGED <<inVars, tx, txlock, irq, put, sent>>

Printf ==
  /\ At("printf", "idle") /\ left.prints > 0
  /\ left' = [left EXCEPT !.prints = @ - 1]
  /\ th' = [th EXCEPT !["printf"] = [Idle EXCEPT !.pc = "sync", !.echo = 1]]
  /\ UNCHANGED <<inVars, outVars>>

-----------------------------------------------------------------------------
(* uartputc() and uartstart().                                             *)

\* consolewrite() of n bytes.
Write(p, n) ==
  /\ At(p, "idle") /\ n <= left.writes
  /\ left' = [left EXCEPT !.writes = @ - n]
  /\ th' = [th EXCEPT ![p] = [Idle EXCEPT !.pc = "w_lock", !.n = n]]
  /\ UNCHANGED <<inVars, outVars>>

\* acquire(&uart_tx_lock) in uartputc(), on return from sleep(), and in
\* uartintr().
TxLock(a) ==
  /\ th[a].pc \in {"w_lock", "intr_tx"} /\ txlock = NoOne
  /\ txlock' = a
  /\ Goto(a, IF a = "intr" THEN "start" ELSE "w_full")
  /\ UNCHANGED <<inVars, tx, fifo, irq, put, sent>>

Putc(p) ==
  /\ At(p, "w_full")
  /\ IF Len(tx) = UART_TX_BUF_SIZE
     THEN txlock' = NoOne /\ Goto(p, "w_asleep") /\ UNCHANGED <<tx, put>>
     ELSE tx' = Append(tx, put + 1) /\ put' = put + 1 /\ Goto(p, "start") /\ UNCHANGED txlock
  /\ UNCHANGED <<inVars, fifo, irq, sent>>

StartTake_NoWakeup(a) ==
  /\ At(a, "start") /\ tx # << >> /\ TxIdle
  /\ tx' = Tail(tx)
  /\ th' = [th EXCEPT ![a].pc = "startput", ![a].echo = Head(tx)]
  /\ UNCHANGED <<inVars, txlock, fifo, irq, put, sent>>
StartTake_Peek(a) ==
  /\ At(a, "start") /\ tx # << >> /\ TxIdle
  /\ tx' = tx
  /\ th' = [Woken(th, "w") EXCEPT ![a].pc = "startput", ![a].echo = Head(tx)]
  /\ UNCHANGED <<inVars, txlock, fifo, irq, put, sent>>
\* A byte is taken from the buffer when the UART is idle, and then written.
StartTake(a) ==
  /\ At(a, "start") /\ tx # << >> /\ TxIdle
  /\ tx' = Tail(tx)
  /\ th' = [Woken(th, "w") EXCEPT ![a].pc = "startput", ![a].echo = Head(tx)]
  /\ UNCHANGED <<inVars, txlock, fifo, irq, put, sent>>

StartPut(a) ==
  /\ At(a, "startput")
  /\ fifo' = Append(fifo, th[a].echo)
  /\ th' = [th EXCEPT ![a].pc = "start", ![a].echo = 0]
  /\ UNCHANGED <<inVars, tx, txlock, irq, put, sent>>

\* uartstart() returns and the lock is released.
StartDone(a) ==
  /\ At(a, "start") /\ (tx = << >> \/ ~TxIdle)
  /\ txlock' = NoOne
  /\ th' = [th EXCEPT ![a] =
       IF a # "intr" /\ @.n > 1 THEN [@ EXCEPT !.pc = "w_lock", !.n = @ - 1] ELSE Idle]
  /\ UNCHANGED <<inVars, tx, fifo, irq, put, sent>>

-----------------------------------------------------------------------------
(* uartintr() and consoleintr().                                           *)

Claim ==
  /\ irq /\ At("intr", "idle")
  /\ irq' = FALSE
  /\ Goto("intr", "getc")
  /\ UNCHANGED <<inVars, tx, txlock, fifo, put, sent>>

Getc_OneOrOutput ==
  /\ At("intr", "getc")
  /\ \/ rx = << >> /\ Goto("intr", "idle") /\ rx' = rx
     \/ rx # << >> /\ rx' = Tail(rx) /\ th' = [th EXCEPT !["intr"].pc = "intr_lock", !["intr"].c = Head(rx)]
  /\ UNCHANGED <<cons, conslock, killed, outVars>>
\* uartgetc() until there is no character; then the output.
Getc ==
  /\ At("intr", "getc")
  /\ \/ rx = << >> /\ Goto("intr", "intr_tx") /\ rx' = rx
     \/ rx # << >> /\ rx' = Tail(rx) /\ th' = [th EXCEPT !["intr"].pc = "intr_lock", !["intr"].c = Head(rx)]
  /\ UNCHANGED <<cons, conslock, killed, outVars>>

IntrLock ==
  /\ At("intr", "intr_lock") /\ conslock = NoOne
  /\ conslock' = "intr"
  /\ Goto("intr", "switch")
  /\ UNCHANGED <<cons, rx, killed, outVars>>

EchoThen(n, ret) == th' = [th EXCEPT !["intr"].pc = "sync", !["intr"].echo = n, !["intr"].ret = ret]

Room_OffByOne == Minus(cons.e, cons.r) <= INPUT_BUF_SIZE
Room == Minus(cons.e, cons.r) < INPUT_BUF_SIZE

\* A line has no newline before its end, so ^U stops at w.
Switch ==
  LET c == th["intr"].c IN
  /\ At("intr", "switch")
  /\ \/ /\ c \in {"del", "kill"} /\ cons.e # cons.w
        /\ cons' = [cons EXCEPT !.e = Dec(@)]
        /\ EchoThen(3, IF c = "kill" THEN "switch" ELSE "intr_done")
     \/ /\ c \notin {"del", "kill"} /\ Room
        /\ cons' = cons
        /\ EchoThen(1, "store")
     \/ /\ IF c \in {"del", "kill"} THEN cons.e = cons.w ELSE ~Room
        /\ cons' = cons
        /\ Goto("intr", "intr_done")
  /\ UNCHANGED <<conslock, rx, killed, outVars>>

\* '\r' is stored as '\n'.
Kept(c) == IF c = "cr" THEN "nl" ELSE c

\* The characters up to e become readable.
Commits(c, e) == c \in {"nl", "eof"} \/ Minus(e, cons.r) = INPUT_BUF_SIZE

Store ==
  LET c == Kept(th["intr"].c)
      e == Inc(cons.e)
      wakes == Commits(c, e)
  IN
  /\ At("intr", "store")
  /\ cons' = [cons EXCEPT !.buf[cons.e % INPUT_BUF_SIZE] = c, !.e = e, !.w = IF wakes THEN e ELSE @]
  /\ th' = [(IF wakes THEN Woken(th, "r") ELSE th) EXCEPT !["intr"].pc = "intr_done"]
  /\ UNCHANGED <<conslock, rx, killed, outVars>>

IntrDone ==
  /\ At("intr", "intr_done")
  /\ conslock' = NoOne
  /\ th' = [th EXCEPT !["intr"] = [Idle EXCEPT !.pc = "getc"]]
  /\ UNCHANGED <<cons, rx, killed, outVars>>

-----------------------------------------------------------------------------
(* consoleread().                                                          *)

Read(p, n) ==
  /\ At(p, "idle") /\ p \notin killed
  /\ th' = [th EXCEPT ![p] = [Idle EXCEPT !.pc = "r_lock", !.n = n, !.target = n]]
  /\ UNCHANGED <<inVars, outVars>>

\* acquire(&cons.lock), on entry and on return from sleep().
ReadLock(p) ==
  /\ At(p, "r_lock") /\ conslock = NoOne
  /\ conslock' = p
  /\ Goto(p, "r_loop")
  /\ UNCHANGED <<cons, rx, killed, outVars>>

ReadReturns(p) == conslock' = NoOne /\ th' = [th EXCEPT ![p] = Idle]

ReadKilled(p) ==
  /\ At(p, "r_loop") /\ cons.r = cons.w /\ p \in killed
  /\ ReadReturns(p)
  /\ UNCHANGED <<cons, rx, killed, outVars>>

ReadWaits(p) ==
  /\ At(p, "r_loop") /\ cons.r = cons.w /\ p \notin killed
  /\ Goto(p, "r_sleep")
  /\ UNCHANGED <<inVars, outVars>>

\* sleep(&cons.r, &cons.lock).
ReadSleep(p) ==
  /\ At(p, "r_sleep")
  /\ conslock' = NoOne
  /\ Goto(p, "r_asleep")
  /\ UNCHANGED <<cons, rx, killed, outVars>>

\* A character is read.  ^D ends the call, and stays for the next one unless it
\* is the first; either_copyout() may fail, and then the character is gone.
ReadChar(p) ==
  LET c == cons.buf[cons.r % INPUT_BUF_SIZE]
      more == [th EXCEPT ![p].n = @ - 1]
  IN
  /\ At(p, "r_loop") /\ cons.r # cons.w
  /\ \/ /\ c = "eof"
        /\ cons' = IF th[p].n < th[p].target THEN cons ELSE [cons EXCEPT !.r = Inc(@)]
        /\ ReadReturns(p)
     \/ /\ c # "eof"
        /\ cons' = [cons EXCEPT !.r = Inc(@)]
        /\ \/ /\ c # "nl" /\ th[p].n > 1
              /\ th' = more /\ conslock' = conslock
           \/ ReadReturns(p)
  /\ UNCHANGED <<rx, killed, outVars>>

\* kill().
Kill(p) ==
  /\ left.kills > 0
  /\ left' = [left EXCEPT !.kills = @ - 1]
  /\ killed' = killed \cup {p}
  /\ th' = IF At(p, "r_asleep") THEN [th EXCEPT ![p].pc = "r_lock"] ELSE th
  /\ UNCHANGED <<cons, conslock, rx, outVars>>

-----------------------------------------------------------------------------
Intr == Claim \/ Getc \/ IntrLock \/ Switch \/ Store \/ IntrDone
Uart(a) == SyncWait(a) \/ SyncPut(a) \/ TxLock(a) \/ StartTake(a) \/ StartPut(a) \/ StartDone(a)
ReadStep(p) == ReadLock(p) \/ ReadKilled(p) \/ ReadWaits(p) \/ ReadSleep(p) \/ ReadChar(p)

Environment ==
  \/ \E k \in Keys : Type(k)
  \/ Printf
  \/ \E p \in Readers : Kill(p)
  \/ \E p \in Writers, n \in 1..2 : Write(p, n)

System ==
  \/ Transmit \/ Intr
  \/ \E a \in Actors : Uart(a)
  \/ \E p \in Readers : ReadStep(p) \/ \E n \in Counts : Read(p, n)
  \/ \E p \in Writers : Putc(p)

Next == Environment \/ (System /\ left' = left)

Spec == Init /\ [][Next]_vars

-----------------------------------------------------------------------------
(* Properties.                                                             *)

\* Nobody sleeps without a reason: a reader that sleeps in consoleread() finds
\* no finished line, a writer that sleeps in uartputc() finds the buffer full.
SleepersHaveReason ==
  /\ \A p \in Readers : At(p, "r_asleep") => cons.r = cons.w
  /\ \A p \in Writers : At(p, "w_asleep") => Len(tx) = UART_TX_BUF_SIZE

\* Bytes wait in the transmit buffer only while something will call uartstart():
\* the UART has a character left whose end will interrupt, the interrupt is
\* pending, its handler has not come to the output yet, or uartputc() is there.
OutputMoves ==
  tx # << >> =>
    \/ fifo # << >> \/ irq
    \/ th["intr"].pc \notin {"idle"}
    \/ txlock # NoOne
    \/ \E a \in Actors : At(a, "syncput")

\* The bytes of write() in the UART, and the one uartstart() has taken out of tx.
Bytes == SelectSeq(fifo, LAMBDA b : b # Echo)
InHand == {a \in Actors : At(a, "startput")}
\* The bytes of write() leave in the order uartputc() took them, each once,
\* whatever echo and printf() put between them.
OutputIntact ==
  /\ Cardinality(InHand) <= 1
  /\ Bytes \o (IF InHand = {} THEN << >> ELSE <<th[CHOOSE a \in InHand : TRUE].echo>>) \o tx =
       [i \in 1..put - sent |-> sent + i]

\* The status register is read before the character is written, and not under
\* one lock: the FIFO must have room for as many characters as there are
\* writers, one of each kind.
FifoSmall == Len(fifo) <= 3

\* The characters between two of the counters.
Between(from, to) == [i \in 1..Minus(to, from) |-> cons.buf[((from + i - 1) % WORD) % INPUT_BUF_SIZE]]
L == INSTANCE LineInput WITH
       line <- Between(cons.w, cons.e), ready <- Between(cons.r, cons.w),
       Size <- INPUT_BUF_SIZE, Chars <- {Kept(k) : k \in Keys}, Finish <- {"nl", "eof"}
\* The input buffer is a line under edit and the finished lines: consoleintr() and
\* consoleread() edit, finish and hand out lines in the order of typing, also when
\* the buffer is full and when the counters wrap.
IsLineInput == L!Spec

\* Output is neither lost, reordered nor doubled, and the UART is not overrun.
OutputSound == OutputIntact /\ FifoSmall
=============================================================================
