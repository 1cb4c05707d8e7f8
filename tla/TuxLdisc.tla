------------------------------ MODULE TuxLdisc ------------------------------
(***************************************************************************)
(* The line discipline of the Tux controller (module/tuxctl-ld.c): two     *)
(* ring buffers between the serial driver and the controller's driver.     *)
(* Received bytes come in by interrupt and are put together to packets of  *)
(* three; bytes to be sent are queued by a process and handed to the       *)
(* serial driver by whoever notices that there is room.                    *)
(*                                                                         *)
(* A byte is its number in the stream.  In the controller's stream byte k  *)
(* begins a packet, and has its high bit clear, when k % 3 = 0.            *)
(***************************************************************************)
EXTENDS Integers, Sequences, FiniteSets, FiniteSetsExt, Functions

CONSTANTS
  TUXCTL_BUFSIZE,  \* cells of a ring buffer (64)
  PACKETS,         \* bytes that data_callback looks at (12)
  ROOM,            \* bytes that the serial driver's own buffer holds
  MaxBytes,        \* bound: bytes in both directions, a put one counting twice
  MaxChunk,        \* bound: bytes in one interrupt
  MaxPut,          \* bound: bytes in one put
  MaxDropped,      \* bound: bytes lost on the serial line
  MaxOpens         \* bound: times the discipline is opened

ASSUME SizeAssumption ==
  /\ TUXCTL_BUFSIZE \in Nat /\ TUXCTL_BUFSIZE > 1
  /\ PACKETS \in Nat /\ PACKETS > 2
  /\ ROOM \in Nat /\ ROOM > 0
  /\ {MaxBytes, MaxChunk, MaxPut, MaxDropped, MaxOpens} \subseteq Nat

VARIABLES
  open, opens,     \* disc_data # 0, and opens still to come (bound)
  rx, tx,          \* the ring buffers
  saved,           \* the static saved[] of data_callback, n_saved of them
  next,            \* number of the controller's next byte
  handled,         \* packets given to tuxctl_handle_packet
  gone,            \* history: controller bytes lost on the line, in a full
                   \* ring or with a closed discipline
  dropped,         \* history: how many of them on the line
  put,             \* number of the next byte to be put
  proc,            \* the process in tuxctl_ldisc_put: where it is, the room
                   \* it was told of, the bytes it has taken
  drv,             \* the serial driver's buffer
  wire,            \* history: bytes sent
  lost,            \* history: bytes that the driver would not take
  overtaken        \* history: an interrupt's write came between the take and
                   \* the write of a process

rxvars == <<rx, saved, next, handled, gone, dropped>>
txvars == <<tx, put, proc, drv, wire, lost, overtaken>>
vars == <<open, opens, rxvars, txvars>>

\* The two directions do not touch each other, so it is enough that each has
\* its long runs while the other is short.
Within(n, p) == n + 2 * p <= MaxBytes

Increasing(s) == \A i, j \in DOMAIN s : i < j => s[i] < s[j]

-----------------------------------------------------------------------------
(* Ring buffers. *)

Empty == [buf |-> [i \in 0 .. TUXCTL_BUFSIZE - 1 |-> -1],
          start |-> 0, end |-> 0]

buf_incidx(i) == (i + 1) % TUXCTL_BUFSIZE
buf_used(r) == IF r.start <= r.end THEN r.end - r.start
               ELSE TUXCTL_BUFSIZE + r.end - r.start
buf_full(r) == buf_incidx(r.end) = r.start
buf_empty(r) == r.start = r.end

\* The bytes in the ring, oldest first.
Contents(r) == [k \in 1 .. buf_used(r) |->
                  r.buf[(r.start + k - 1) % TUXCTL_BUFSIZE]]

\* Put a byte in, unless the ring is full; put bytes in, one by one.
Push(r, b) ==
  IF buf_full(r) THEN r
  ELSE [r EXCEPT !.buf = [@ EXCEPT ![r.end] = b], !.end = buf_incidx(@)]

Fill(r, bytes) ==
  LET fill[n \in 0 .. Len(bytes)] ==
        IF n = 0 THEN r ELSE Push(fill[n - 1], bytes[n])
  IN fill[Len(bytes)]

\* Take up to n bytes out: what they are, and the ring without them.
Taken(r, n) == SubSeq(Contents(r), 1, Min({n, buf_used(r)}))
Rest(r, n) ==
  [r EXCEPT !.start = (@ + Min({n, buf_used(r)})) % TUXCTL_BUFSIZE]

-----------------------------------------------------------------------------
(* Receiving, in an interrupt. *)

\* What a read of up to n bytes returns, from a ring r.
tuxctl_ldisc_get(r, n) == Taken(r, n)

\* The framing bits: a clear high bit, then two set ones.
Framed(p, i) ==
  p[i] % 3 = 0 /\ p[i + 1] % 3 # 0 /\ p[i + 2] % 3 # 0

\* The scan for packets from index i of p: the packets found, and the index at
\* which it stops, with at most two bytes left over.
Scan(p) ==
  LET scan[i \in 1 .. Len(p) + 1] ==
        IF i > Len(p) - 2 THEN [found |-> <<>>, stop |-> i]
        ELSE IF Framed(p, i)
             THEN [scan[i + 3] EXCEPT !.found = <<SubSeq(p, i, i + 2)>> \o @]
        ELSE scan[i + 1]
  IN scan[1]

\* Mutant: the leftover bytes are not kept.
CallbackForgets(r) ==
  LET p == tuxctl_ldisc_get(r, PACKETS)
  IN /\ handled' = handled \o Scan(p).found
     /\ saved' = <<>>
     /\ rx' = Rest(r, PACKETS)

\* tuxctl_ldisc_data_callback, for a ring r that rcv_buf has just filled.
tuxctl_ldisc_data_callback(r) ==
  LET n == PACKETS - Len(saved)
      p == saved \o tuxctl_ldisc_get(r, n)
  IN /\ handled' = handled \o Scan(p).found
     /\ saved' = SubSeq(p, Scan(p).stop, Len(p))
     /\ rx' = Rest(r, n)

\* What the line leaves of count bytes, as distances from the first of them.
Arrivals ==
  [count \in 1 .. MaxChunk |->
     UNION {{s \in [1 .. n -> 0 .. count - 1] : Increasing(s)} : n \in 1 .. count}]

\* The serial driver's interrupt: up to MaxChunk bytes, of which the line may
\* have lost some.  What does not fit into the ring is lost, and so is all of
\* it when the discipline is not open.
tuxctl_ldisc_rcv_buf ==
  \E count \in 1 .. MaxChunk :
  \E s \in Arrivals[count] :
    LET cp == [k \in 1 .. Len(s) |-> next + s[k]]
        drop == (next .. next + count - 1) \ Range(cp)
        fits == Min({Len(cp), TUXCTL_BUFSIZE - 1 - buf_used(rx)})
    IN /\ Within(next + count, put)
       /\ dropped + Cardinality(drop) <= MaxDropped
       /\ dropped' = dropped + Cardinality(drop)
       /\ next' = next + count
       /\ IF open
          THEN /\ tuxctl_ldisc_data_callback(Fill(rx, cp))
               /\ gone' = gone \cup drop
                          \cup Range(SubSeq(cp, fits + 1, Len(cp)))
          ELSE gone' = gone \cup (next .. next + count - 1)
               /\ UNCHANGED <<rx, saved, handled>>
       /\ UNCHANGED <<open, opens, txvars>>

-----------------------------------------------------------------------------
(* Sending. *)

\* Mutant: the loop runs once more than the code's.
TakeTwoMore(room) == Taken(tx, room + 2)

\* The bytes that a wake-up takes out of the ring for a driver that has told
\* it of room: the loop runs while n <= room.
Take(room) == Taken(tx, room + 1)

\* The driver takes what it has room for; the rest is lost.
Write(bytes) ==
  LET n == Min({Len(bytes), ROOM - Len(drv)})
  IN /\ drv' = drv \o SubSeq(bytes, 1, n)
     /\ lost' = lost \cup Range(SubSeq(bytes, n + 1, Len(bytes)))

Idle == [at |-> "idle", room |-> 0, buf |-> <<>>]

\* tuxctl_ldisc_put: fill the ring under the lock, then the wake-up.  The
\* controller's driver calls it for one process at a time.
tuxctl_ldisc_put ==
  /\ open /\ proc.at = "idle"
  /\ \E n \in 1 .. MaxPut :
       LET bytes == [i \in 1 .. n |-> put + i - 1]
           k == Min({n, TUXCTL_BUFSIZE - 1 - buf_used(tx)})
       IN /\ Within(next, put + n)
          /\ tx' = Fill(tx, bytes)
          /\ put' = put + k
  /\ proc' = [Idle EXCEPT !.at = "room"]
  /\ UNCHANGED <<open, opens, rxvars, drv, wire, lost, overtaken>>

\* The wake-up in the process, which interrupts may come between: ask for the
\* room, take bytes under the lock, write them.
AskRoom ==
  /\ proc.at = "room"
  /\ proc' = [proc EXCEPT !.at = "take", !.room = ROOM - Len(drv)]
  /\ UNCHANGED <<open, opens, rxvars, tx, put, drv, wire, lost, overtaken>>

\* Mutant: the bytes stay in the ring.
TakeBytesKept ==
  /\ proc.at = "take"
  /\ proc' = [proc EXCEPT !.at = "write", !.buf = Take(proc.room)]
  /\ UNCHANGED <<open, opens, rxvars, tx, put, drv, wire, lost, overtaken>>

TakeBytes ==
  /\ proc.at = "take"
  /\ proc' = [proc EXCEPT !.at = "write", !.buf = Take(proc.room)]
  /\ tx' = Rest(tx, Len(Take(proc.room)))
  /\ UNCHANGED <<open, opens, rxvars, put, drv, wire, lost, overtaken>>

WriteBytes ==
  /\ proc.at = "write"
  /\ Write(proc.buf) /\ proc' = Idle
  /\ UNCHANGED <<open, opens, rxvars, tx, put, wire, overtaken>>

\* The wake-up in the driver's interrupt, all in one.  The driver may make it or
\* not: nothing here asks for it (TTY_DO_WRITE_WAKEUP is not set).
tuxctl_ldisc_write_wakeup ==
  LET bytes == Take(ROOM - Len(drv))
  IN /\ open /\ Len(drv) < ROOM
     /\ tx' = Rest(tx, Len(bytes))
     /\ Write(bytes)
     /\ overtaken' = (overtaken \/ (bytes # <<>> /\ proc.buf # <<>>))
     /\ UNCHANGED <<open, opens, rxvars, put, proc, wire>>

\* The serial driver sends a byte.
SendByte ==
  /\ drv # <<>>
  /\ wire' = Append(wire, Head(drv)) /\ drv' = Tail(drv)
  /\ UNCHANGED <<open, opens, rxvars, tx, put, proc, lost, overtaken>>

-----------------------------------------------------------------------------
(* Opening and closing.  saved is static: it outlives the rings. *)

tuxctl_ldisc_open ==
  /\ ~open /\ opens > 0
  /\ open' = TRUE /\ opens' = opens - 1
  /\ rx' = Empty /\ tx' = Empty
  /\ UNCHANGED <<saved, next, handled, gone, dropped, put, proc, drv, wire, lost,
                 overtaken>>

tuxctl_ldisc_close ==
  /\ open /\ proc.at = "idle"
  /\ open' = FALSE
  /\ gone' = gone \cup Range(Contents(rx))
  /\ lost' = lost \cup Range(Contents(tx))
  /\ rx' = Empty /\ tx' = Empty
  /\ UNCHANGED <<opens, saved, next, handled, dropped, put, proc, drv, wire,
                 overtaken>>

Init ==
  /\ open = FALSE /\ opens = MaxOpens
  /\ rx = Empty /\ tx = Empty /\ saved = <<>>
  /\ next = 0 /\ handled = <<>> /\ gone = {} /\ dropped = 0
  /\ put = 0 /\ proc = Idle /\ drv = <<>> /\ wire = <<>>
  /\ lost = {} /\ overtaken = FALSE

Next ==
  \/ tuxctl_ldisc_open \/ tuxctl_ldisc_close
  \/ tuxctl_ldisc_rcv_buf
  \/ tuxctl_ldisc_put \/ AskRoom \/ TakeBytes \/ WriteBytes
  \/ tuxctl_ldisc_write_wakeup \/ SendByte

Spec == Init /\ [][Next]_vars

\* The serial line runs, and a process inside put goes on.
FairSpec ==
  Spec /\ WF_vars(SendByte) /\ WF_vars(AskRoom \/ TakeBytes \/ WriteBytes)

-----------------------------------------------------------------------------
(* Properties *)

\* Type correctness: the indices stay inside the rings, and never more than
\* the two bytes of saved[] are left over.
TypeOK ==
  /\ open \in BOOLEAN /\ opens \in 0 .. MaxOpens
  /\ \A r \in {rx, tx} : {r.start, r.end} \subseteq 0 .. TUXCTL_BUFSIZE - 1
  /\ Len(saved) <= 2 /\ Len(drv) <= ROOM
  /\ Within(next, put)
  /\ proc.at \in {"idle", "room", "take", "write"}

Packet(q) == <<3 * q, 3 * q + 1, 3 * q + 2>>

\* Every packet of which no byte was lost is handled, once and in the order of
\* the stream, however the bytes are cut up by interrupts, by the limit of one
\* callback and by lost bytes of other packets; until then its bytes wait in
\* the ring or in saved.
WholePacketsHandled ==
  /\ \A q \in 0 .. next \div 3 - 1 :
       Range(Packet(q)) \cap gone = {} =>
         \/ Packet(q) \in Range(handled)
         \/ Range(Packet(q)) \cap Range(saved \o Contents(rx)) # {}
  /\ \A i, j \in DOMAIN handled : i < j => handled[i][3] < handled[j][1]

\* A single lost byte never makes the rest of its packet pass for a packet: what
\* is handled is a packet of the stream, or at least two bytes from within it
\* were lost.
SingleLossDetected ==
  \A i \in DOMAIN handled :
    LET p == handled[i]
    IN \/ p = Packet(p[1] \div 3)
       \/ Cardinality((p[1] .. p[3]) \cap gone) >= 2

\* Bytes leave in the order in which they were put, none twice, unless an
\* interrupt's wake-up wrote while a process held bytes that it had taken.
OutInOrder ==
  ~overtaken =>
    LET out == wire \o drv \o proc.buf \o (IF open THEN Contents(tx) ELSE <<>>)
    IN Increasing(out)

\* No byte that put accepted disappears without trace: it is on its way, sent,
\* or was refused by the driver.
PutAccounted ==
  0 .. put - 1 =
    lost \cup Range(wire \o drv \o proc.buf \o Contents(tx))

\* A wake-up loses at most the one byte by which its loop exceeds the room,
\* unless the room that a process was told of has been used up by an
\* interrupt before the process writes.
LosesAtMostOne ==
  [][ (/\ open'
       /\ (proc.at = "write" /\ proc'.at = "idle") => proc.room <= ROOM - Len(drv))
      => Cardinality(lost') <= Cardinality(lost) + 1 ]_vars

\* Queued bytes do not stay in the ring.  It does not hold under FairSpec: what
\* put's own wake-up leaves there waits for the next put.
TxDrains == ~buf_empty(tx) ~> buf_empty(tx)

\* The callback's framing is right: whole packets get through, and a damaged one
\* is not taken for a packet, however interrupts, limits, losses and reopening
\* cut the stream.
PacketsCorrect == TypeOK /\ WholePacketsHandled /\ SingleLossDetected

\* The way out is right: what put accepted is sent in order, or known to be lost.
BytesKept == OutInOrder /\ PutAccounted

=============================================================================
