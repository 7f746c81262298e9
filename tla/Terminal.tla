------------------------------ MODULE Terminal -------------------------------
(***************************************************************************)
(* Output to serial line and screen, input from keyboard and serial line.  *)
(***************************************************************************)
EXTENDS Integers, Sequences, FiniteSets, SequencesExt

-----------------------------------------------------------------------------
(***************************************************************************)
(* Console output: the line buffer of kernel/src/console.rs, the serial    *)
(* device behind it (arch/x86_64/kernel/serial.rs: a UART, a page shared   *)
(* with the host, or nothing) and the text on the framebuffer              *)
(* (drivers/console/gop.rs).  println and the logger call Console::write   *)
(* only; a write to stdout or stderr (fd/stdio.rs) also flushes.           *)
(*                                                                         *)
(* A byte is [id, kind]: its number among all bytes written, and what the  *)
(* screen does with it.  The lock of the console is held for a whole       *)
(* write; only the host, which drains the shared page, works meanwhile.    *)
(* It comes between the guest's read of tx_read and its store, so that the *)
(* guest can put tx_read back and the host read bytes twice.  The host is  *)
(* external: it takes a byte in one step.  The indices are u32 and wrap in *)
(* the code after 2^32 bytes, which the bound MaxBytes leaves out.         *)
(***************************************************************************)
CONSTANTS
    SERIAL_BUFFER_SIZE,
    RING_SIZE,              \* VIRTUAL_CONSOLE_RING_SIZE
    COLS, ROWS,             \* cells of the screen
    Texts,                  \* what is written: sequences of kinds
    MaxBytes                \* bound: bytes written

Kinds == {"glyph", "newline", "return", "backspace", "tab", "clear"}
Backends == {"Memory", "Uart", "Null"}

VARIABLES
    backend,
    console_buffer,                 \* Console::buffer
    sending,                \* the rest of what is being given to the device
    sent,                   \* what the device was given so far
    tx_buf, tx_write, tx_read,  \* the ring of the shared page
    host,                   \* what the host has read
    seen,                   \* tx_read as MemoryConsole::write last read it, or Unread
    overrun,                \* auxiliary: the ring was found full and its oldest byte dropped
    rewound,                \* auxiliary: the guest has put tx_read back
    cursor,                 \* [col, row] of the framebuffer
    drawn,                  \* cells drawn or cleared so far: a set of [col, row]
    written                 \* auxiliary: every byte written

console_vars == <<backend, console_buffer, sending, sent, tx_buf, tx_write, tx_read, host, seen,
                  overrun, rewound, cursor, drawn, written>>

Byte == [id : 1 .. MaxBytes, kind : Kinds]
Nothing == [id |-> 0, kind |-> "glyph"]
Unread == -1

ConsoleTypeOK ==
    /\ backend \in Backends
    /\ console_buffer \in Seq(Byte) /\ Len(console_buffer) <= SERIAL_BUFFER_SIZE
    /\ sending \in Seq(Byte)
    /\ tx_buf \in [0 .. RING_SIZE - 1 -> Byte \cup {Nothing}]
    /\ tx_write - tx_read \in 0 .. RING_SIZE
    /\ seen \in {Unread} \cup 0 .. MaxBytes

ConsoleInit ==
    /\ backend \in Backends
    /\ console_buffer = <<>> /\ sending = <<>> /\ sent = <<>>
    /\ tx_buf = [i \in 0 .. RING_SIZE - 1 |-> Nothing]
    /\ tx_write = 0 /\ tx_read = 0
    /\ host = <<>>
    /\ seen = Unread
    /\ overrun = FALSE /\ rewound = FALSE
    /\ cursor = [col |-> 0, row |-> 0]
    /\ drawn = {}
    /\ written = <<>>

-----------------------------------------------------------------------------
(* gop.rs *)

\* A line feed at the last row clears the screen and starts over at the top.
newline(c) == [col |-> 0, row |-> IF c.row + 1 >= ROWS THEN 0 ELSE c.row + 1]

\* The state is [at, cells]: the cursor and the cells touched.
draw_glyph(s) ==
    LET at == IF s.at.col >= COLS THEN newline(s.at) ELSE s.at
    IN  [at |-> [at EXCEPT !.col = @ + 1], cells |-> s.cells \cup {at}]

clear_cell(s) == [s EXCEPT !.cells = @ \cup {s.at}]
backspace(s) == IF s.at.col = 0 THEN s ELSE clear_cell([s EXCEPT !.at.col = @ - 1])

write_byte(s, b) ==
    CASE b.kind = "clear" -> [s EXCEPT !.at = [col |-> 0, row |-> 0]]
      [] b.kind = "newline" -> [s EXCEPT !.at = newline(@)]
      [] b.kind = "return" -> [s EXCEPT !.at.col = 0]
      [] b.kind = "backspace" -> backspace(s)
      [] b.kind = "tab" -> draw_glyph(draw_glyph(draw_glyph(draw_glyph(s))))
      [] OTHER -> draw_glyph(s)

-----------------------------------------------------------------------------
(* console.rs *)

Bytes(text) == [i \in DOMAIN text |-> [id |-> Len(written) + i, kind |-> text[i]]]
HasNewline(text) == \E i \in DOMAIN text : text[i] = "newline"

\* What one write gives to the device and what it keeps in the buffer.
Give(out, kept) == sending' = out /\ console_buffer' = kept

\* A text that does not fit pushes the buffer out first.
MakeRoom(buf) ==
    IF Len(buf) >= SERIAL_BUFFER_SIZE THEN Give(console_buffer \o buf, <<>>) ELSE Give(console_buffer, buf)

write(text, flush) ==
    LET buf == Bytes(text)
        fits == SERIAL_BUFFER_SIZE - Len(console_buffer) >= Len(buf)
    IN  /\ sending = <<>>
        /\ Len(written) + Len(text) <= MaxBytes
        /\ written' = written \o buf
        /\ \/ /\ flush \/ HasNewline(text)
              /\ Give(console_buffer \o buf, <<>>)
           \/ /\ ~ flush /\ ~ HasNewline(text) /\ fits
              /\ Give(<<>>, console_buffer \o buf)
           \/ /\ ~ flush /\ ~ HasNewline(text) /\ ~ fits
              /\ MakeRoom(buf)
        /\ UNCHANGED <<backend, sent, tx_buf, tx_write, tx_read, host, seen, overrun, rewound,
                       cursor, drawn>>

-----------------------------------------------------------------------------
(* serial.rs *)

Slot(n) == n % RING_SIZE

\* Mutant of RingFull: off by one.
RingFull_late == tx_write - seen > RING_SIZE

RingFull == tx_write - seen >= RING_SIZE

\* MemoryConsole::write, for one byte: tx_read is read; only the guest stores tx_write.
read_tx ==
    /\ sending # <<>>
    /\ backend = "Memory"
    /\ seen = Unread
    /\ seen' = tx_read
    /\ UNCHANGED <<backend, console_buffer, sending, sent, tx_buf, tx_write, tx_read, host, overrun,
                   rewound, cursor, drawn, written>>

\* A ring that was full loses its oldest byte, not the newest.
drop_oldest ==
    /\ seen # Unread
    /\ RingFull
    /\ seen' = seen + 1
    /\ tx_read' = seen + 1
    /\ overrun' = TRUE
    /\ rewound' = (rewound \/ tx_read > seen + 1)
    /\ UNCHANGED <<backend, console_buffer, sending, sent, tx_buf, tx_write, host, cursor, drawn,
                   written>>

\* The byte is stored, given to the UART, or thrown away; then it goes to the screen.
device_write ==
    LET b == Head(sending)
        screen == write_byte([at |-> cursor, cells |-> drawn], b)
    IN  /\ sending # <<>>
        /\ backend = "Memory" => seen # Unread /\ ~ RingFull
        /\ sending' = Tail(sending)
        /\ sent' = Append(sent, b)
        /\ IF backend = "Memory"
           THEN tx_buf' = [tx_buf EXCEPT ![Slot(tx_write)] = b] /\ tx_write' = tx_write + 1
           ELSE UNCHANGED <<tx_buf, tx_write>>
        /\ seen' = Unread
        /\ cursor' = screen.at
        /\ drawn' = screen.cells
        /\ UNCHANGED <<backend, console_buffer, tx_read, host, overrun, rewound, written>>

\* The host takes the next byte of the page.
host_read ==
    /\ tx_read < tx_write
    /\ host' = Append(host, tx_buf[Slot(tx_read)])
    /\ tx_read' = tx_read + 1
    /\ UNCHANGED <<backend, console_buffer, sending, sent, tx_buf, tx_write, seen, overrun, rewound,
                   cursor, drawn, written>>

ConsoleNext ==
    \/ \E text \in Texts, flush \in BOOLEAN : write(text, flush)
    \/ read_tx \/ drop_oldest \/ device_write
    \/ host_read

ConsoleSpec == ConsoleInit /\ [][ConsoleNext]_console_vars

-----------------------------------------------------------------------------
(* Properties *)

InRing == [i \in 1 .. tx_write - tx_read |-> tx_buf[Slot(tx_read + i - 1)]]

\* The device is given every byte once and in the order of the writes, through
\* all the ways a text can meet a filling buffer (Console::write, flush).  A
\* host that keeps up reads the same; one that does not misses bytes, and reads
\* none twice or late unless the guest, which found the ring full and then
\* stores tx_read, puts back what the host stored meanwhile
\* (MemoryConsole::write, serial.rs:107-113).
OutputInOrder ==
    /\ sent \o sending \o console_buffer = written
    /\ backend = "Memory" /\ ~ overrun => host \o InRing = sent
    /\ ~ rewound => \A i, j \in DOMAIN host : i < j => host[i].id < host[j].id

\* The ring of the shared page always holds the newest bytes, also after it
\* dropped some and after tx_read was put back.
RingIsNewest ==
    backend = "Memory" => InRing = SubSeq(sent, Len(sent) - Len(InRing) + 1, Len(sent))

\* Every cell drawn or cleared is a cell of the screen, so every pixel written
\* is in the framebuffer.
GlyphsOnScreen == \A c \in drawn : c.col \in 0 .. COLS - 1 /\ c.row \in 0 .. ROWS - 1

-----------------------------------------------------------------------------
(***************************************************************************)
(* Console input: GenericStdin (kernel/src/fd/stdio.rs) over the PS/2      *)
(* keyboard (arch/x86_64/kernel/ps2_keyboard.rs) and the serial device     *)
(* (serial.rs: a UART, or the page shared with the host), with the one     *)
(* waker CONSOLE_WAKER (console.rs, executor/mod.rs) and one thread that   *)
(* reads or polls in block_on.  With two readers the waker of the first is *)
(* overwritten; that is left out.  Serial bytes are numbered as they come. *)
(*                                                                         *)
(* A scan code is [key, up]; of the keys that give a byte there are a      *)
(* letter, a digit and Enter.  Prefixes and answers are keys of their own. *)
(* In set 1 a code with its top bit set is a release, and the release of   *)
(* the left shift is also an answer byte (0xaa), which decode drops; in    *)
(* set 2 a release is a prefix and the code.                               *)
(***************************************************************************)
CONSTANTS
    BUFFER_LEN,     \* of the keyboard's ring
    POLL_LIMIT,     \* codes taken from the controller in one poll
    Presses,        \* what a user does: sequences of scan codes
    ReadLens,       \* lengths of the buffer given to read
    MaxInput        \* bound: presses and serial bytes

VARIABLES
    line,           \* backend(): "Uart" or "Memory"
    present,        \* the keyboard acknowledged probe_and_enable
    kbd,            \* modifiers and prefixes of Ps2Keyboard
    stdin_buffer, head, tail,     \* its ring
    fifo,           \* codes in the controller
    uart, rx,       \* bytes in the UART, and in UART_DEVICE.buffer
    page,           \* [rx_buf, rx_write, rx_read] of the shared page
    irq,            \* serial_handler has yet to wake
    waker,          \* CONSOLE_WAKER holds the waker of the present call
    reader,         \* where the thread is in read (r_) or poll (p_)
    notified,       \* futex of the call's TaskNotify
    ready,          \* poll has announced input that was not asked for since
    pushed, got,    \* auxiliary: keyboard bytes accepted, and keyboard bytes read
    came, took,     \* auxiliary: how many serial bytes came, and the ones read
    presses

stdin_vars == <<line, present, kbd, stdin_buffer, head, tail, fifo, uart, rx, page, irq, waker, reader,
                notified, ready, pushed, got, came, took, presses>>
keyboard_vars == <<present, kbd, stdin_buffer, head, tail, fifo, pushed, got>>
serial_vars == <<line, uart, rx, page, came, took>>
Steps == {"idle", "r_poll", "r_registered", "r_empty", "r_asleep", "p_poll", "p_empty", "p_asleep"}

Fresh == [left_shift |-> FALSE, right_shift |-> FALSE, ctrl |-> FALSE, extended |-> FALSE,
          break_pending |-> FALSE, scan_set2 |-> FALSE]

StdinTypeOK ==
    /\ present \in BOOLEAN
    /\ kbd \in [left_shift : BOOLEAN, right_shift : BOOLEAN, ctrl : BOOLEAN,
                extended : BOOLEAN, break_pending : BOOLEAN, scan_set2 : BOOLEAN]
    /\ head \in 0 .. BUFFER_LEN - 1 /\ tail \in 0 .. BUFFER_LEN - 1
    /\ line \in {"Uart", "Memory"}
    /\ page.rx_write - page.rx_read \in 0 .. RING_SIZE
    /\ {irq, waker, notified, ready} \subseteq BOOLEAN
    /\ reader \in Steps

\* probe_and_enable: without its acknowledgement the keyboard is not polled.
StdinInit ==
    /\ line \in {"Uart", "Memory"}
    /\ present \in BOOLEAN
    /\ kbd = Fresh
    /\ stdin_buffer = [i \in 0 .. BUFFER_LEN - 1 |-> "none"]
    /\ head = 0 /\ tail = 0
    /\ fifo = <<>> /\ uart = <<>> /\ rx = <<>>
    /\ page = [rx_buf |-> [i \in 0 .. RING_SIZE - 1 |-> 0], rx_write |-> 0, rx_read |-> 0]
    /\ irq = FALSE /\ waker = FALSE /\ notified = FALSE /\ ready = FALSE
    /\ reader = "idle"
    /\ pushed = <<>> /\ got = <<>> /\ came = 0 /\ took = <<>>
    /\ presses = 0

-----------------------------------------------------------------------------
(* ps2_keyboard.rs: decode gives the next modifiers and a byte or "none" *)

shift_active(k) == k.left_shift \/ k.right_shift
clear_momentary_modifiers(k) == [k EXCEPT !.left_shift = FALSE, !.right_shift = FALSE]

\* decode_set1 and decode_set2, the tables: caps_lock is never set.
ByteOf(k, key) ==
    CASE key = "c" /\ k.ctrl -> "interrupt"
      [] key \in {"c", "1"} -> IF shift_active(k) THEN key \o "+shift" ELSE key
      [] key = "enter" -> "enter"
      [] OTHER -> "none"

Typed(k, key) ==
    LET byte == ByteOf(k, key)
    IN  [kbd |-> IF byte = "none" THEN k ELSE clear_momentary_modifiers(k), byte |-> byte]

Silent(k) == [kbd |-> k, byte |-> "none"]

\* What both sets do with a code once the prefixes are read.
Key(k, key, released) ==
    CASE key = "lshift" -> Silent([k EXCEPT !.left_shift = ~ released])
      [] key = "rshift" -> Silent([k EXCEPT !.right_shift = ~ released])
      [] key = "ctrl" -> Silent([k EXCEPT !.ctrl = ~ released])
      [] key = "caps" /\ ~ released -> Silent(clear_momentary_modifiers(k))
      [] released -> Silent(k)
      [] OTHER -> Typed(k, key)

decode_set2(k, code) ==
    LET released == k.break_pending
        plain == [k EXCEPT !.break_pending = FALSE, !.extended = FALSE]
    IN  IF k.extended /\ code.key \notin {"lshift", "rshift", "ctrl"}
        THEN [kbd |-> plain,
              byte |-> IF code.key = "enter" /\ ~ released THEN "enter" ELSE "none"]
        ELSE Key(plain, code.key, released)

decode(k, code) ==
    CASE code.key = "answer" \/ (code = [key |-> "lshift", up |-> TRUE]) -> Silent(k)
      [] code.key = "e0" -> Silent([k EXCEPT !.extended = TRUE])
      [] code.key = "f0" -> Silent([k EXCEPT !.break_pending = TRUE, !.scan_set2 = TRUE])
      [] k.scan_set2 -> decode_set2(k, code)
      [] k.extended ->
           LET plain == [k EXCEPT !.extended = FALSE]
           IN  CASE code.key = "enter" /\ ~ code.up -> [kbd |-> plain, byte |-> "enter"]
                 [] code.key = "rshift" /\ code.up ->
                      Silent([plain EXCEPT !.right_shift = FALSE])
                 [] OTHER -> Silent(plain)
      [] OTHER -> Key(k, code.key, code.up)

-----------------------------------------------------------------------------
(* Its ring *)

Full(h, t) == (h + 1) % BUFFER_LEN = t

\* The state is [kbd, buffer, head, pushed]; a byte that finds the ring full is dropped.
Push(s, byte) ==
    IF byte = "none" \/ Full(s.head, tail) THEN s
    ELSE [s EXCEPT !.buffer[s.head] = byte, !.head = (@ + 1) % BUFFER_LEN,
                   !.pushed = Append(@, byte)]

First(seq, n) == SubSeq(seq, 1, IF Len(seq) < n THEN Len(seq) ELSE n)
Rest(seq, n) == SubSeq(seq, Len(First(seq, n)) + 1, Len(seq))

\* poll
Polled ==
    FoldLeft(LAMBDA s, code : LET d == decode(s.kbd, code) IN Push([s EXCEPT !.kbd = d.kbd], d.byte),
             [kbd |-> kbd, buffer |-> stdin_buffer, head |-> head, pushed |-> pushed],
             IF present THEN First(fifo, POLL_LIMIT) ELSE <<>>)

keyboard_poll(p) ==
    /\ kbd' = p.kbd /\ stdin_buffer' = p.buffer /\ head' = p.head /\ pushed' = p.pushed
    /\ fifo' = IF present THEN Rest(fifo, POLL_LIMIT) ELSE fifo

Popped(h, b) == [i \in 1 .. (h - tail) % BUFFER_LEN |-> b[(tail + i - 1) % BUFFER_LEN]]

-----------------------------------------------------------------------------
(* The serial device *)

\* MemoryConsole::rx_len
rx_len == IF page.rx_write - page.rx_read < RING_SIZE THEN page.rx_write - page.rx_read ELSE RING_SIZE

OnPage == [i \in 1 .. rx_len |-> page.rx_buf[Slot(page.rx_read + i - 1)]]

\* What SerialDevice::read can take.
Waiting == IF line = "Memory" THEN OnPage ELSE rx

\* SerialDevice::read, up to n bytes.  Only the guest stores rx_read and the
\* host fills no slot before that, so the loop over the page is one step.
serial_read(n) ==
    /\ took' = took \o First(Waiting, n)
    /\ IF line = "Memory"
       THEN page' = [page EXCEPT !.rx_read = @ + Len(First(OnPage, n))] /\ UNCHANGED rx
       ELSE rx' = Rest(rx, n) /\ UNCHANGED page

-----------------------------------------------------------------------------
(* The thread: read and poll, in block_on *)

Go(from, to) ==
    /\ reader = from
    /\ reader' = to

\* A call has a TaskNotify of its own.
call ==
    /\ \/ Go("idle", "r_poll")
       \/ Go("idle", "p_poll")
    /\ notified' = FALSE /\ waker' = FALSE
    /\ UNCHANGED <<keyboard_vars, serial_vars, irq, ready, presses>>

\* read registers the waker before it looks at the devices.
register ==
    /\ Go("r_poll", "r_registered")
    /\ waker' = TRUE
    /\ UNCHANGED <<keyboard_vars, serial_vars, irq, notified, ready, presses>>

\* physical_keyboard_read, then CONSOLE.read; with a keyboard to poll the call
\* returns 0 bytes rather than wait.
poll_read(n) ==
    LET p == Polled
        bytes == First(Popped(p.head, p.buffer), n)
        empty == bytes = <<>> /\ Waiting = <<>>
    IN  /\ Go("r_registered", IF empty /\ ~ present THEN "r_empty" ELSE "idle")
        /\ keyboard_poll(p)
        /\ tail' = (tail + Len(bytes)) % BUFFER_LEN
        /\ got' = got \o bytes
        /\ IF bytes = <<>> THEN serial_read(n) ELSE UNCHANGED <<took, rx, page>>
        /\ ready' = FALSE
        /\ UNCHANGED <<line, present, uart, irq, waker, notified, came, presses>>

\* GenericStdin::poll: it looks, and registers nothing.
poll ==
    LET p == Polled
        input == p.head # tail \/ Waiting # <<>>
    IN  /\ Go("p_poll", IF input THEN "idle" ELSE "p_empty")
        /\ keyboard_poll(p)
        /\ ready' = input
        /\ UNCHANGED <<serial_vars, present, tail, got, irq, waker, notified, presses>>

\* The loop of block_on polls some times before it waits.
snooze ==
    /\ Go("r_empty", "r_poll") \/ Go("p_empty", "p_poll")
    /\ UNCHANGED <<keyboard_vars, serial_vars, irq, waker, notified, ready, presses>>

\* Mutant of wait: a wake-up that came before the wait is forgotten.
wait_deaf ==
    /\ Go("r_empty", "r_asleep") \/ Go("p_empty", "p_asleep")
    /\ notified' = FALSE
    /\ UNCHANGED <<keyboard_vars, serial_vars, irq, waker, ready, presses>>

\* TaskNotify::wait
wait ==
    /\ \/ Go("r_empty", IF notified THEN "r_poll" ELSE "r_asleep")
       \/ Go("p_empty", IF notified THEN "p_poll" ELSE "p_asleep")
    /\ notified' = FALSE
    /\ UNCHANGED <<keyboard_vars, serial_vars, irq, waker, ready, presses>>

\* The timeout of a poll; nothing else ends its sleep.
timeout ==
    /\ Go("p_asleep", "idle")
    /\ UNCHANGED <<keyboard_vars, serial_vars, irq, waker, notified, ready, presses>>

-----------------------------------------------------------------------------
(* The devices *)

press(codes) ==
    /\ presses + came < MaxInput
    /\ presses' = presses + 1
    /\ fifo' = fifo \o codes
    /\ UNCHANGED <<serial_vars, present, kbd, stdin_buffer, head, tail, pushed, got, irq, waker, reader,
                   notified, ready>>

\* A byte arrives at the UART, or the host puts it into a page with room.
receive ==
    /\ presses + came < MaxInput
    /\ came' = came + 1
    /\ \/ /\ line = "Uart"
          /\ uart' = Append(uart, came')
          /\ UNCHANGED page
       \/ /\ line = "Memory"
          /\ rx_len < RING_SIZE
          /\ page' = [page EXCEPT !.rx_buf[Slot(page.rx_write)] = came', !.rx_write = @ + 1]
          /\ UNCHANGED uart
    /\ UNCHANGED <<keyboard_vars, line, rx, took, irq, waker, reader, notified, ready, presses>>

\* get_serial_handler gives a handler to a UART only.  One byte per interrupt,
\* under the lock of UART_DEVICE ...
serial_handler ==
    /\ line = "Uart"
    /\ ~ irq
    /\ uart # <<>>
    /\ rx' = Append(rx, Head(uart))
    /\ uart' = Tail(uart)
    /\ irq' = TRUE
    /\ UNCHANGED <<keyboard_vars, line, page, came, took, waker, reader, notified, ready, presses>>

\* ... then the waker is taken and woken.
serial_wake ==
    /\ irq
    /\ irq' = FALSE
    /\ waker' = FALSE
    /\ \/ waker /\ Go("r_asleep", "r_poll") /\ UNCHANGED notified
       \/ waker /\ reader # "r_asleep" /\ notified' = TRUE /\ UNCHANGED reader
       \/ ~ waker /\ UNCHANGED <<reader, notified>>
    /\ UNCHANGED <<keyboard_vars, serial_vars, ready, presses>>

StdinNext ==
    \/ call \/ register \/ poll \/ snooze \/ wait \/ timeout
    \/ \E n \in ReadLens : poll_read(n)
    \/ serial_handler \/ serial_wake \/ receive
    \/ \E codes \in Presses : press(codes)

StdinSpec == StdinInit /\ [][StdinNext]_stdin_vars

-----------------------------------------------------------------------------
(* Properties *)

\* What was typed is read once and in order, on each device, also when the
\* keyboard's ring fills up between two reads, when a read takes only a part,
\* and when the ring of the shared page wraps (Ps2Keyboard, serial.rs).
InputInOrder ==
    /\ got \o Popped(head, stdin_buffer) = pushed
    /\ took \o Waiting \o uart = [i \in 1 .. came |-> i]

\* A reader of the UART never sleeps over a byte that the handler has taken,
\* unless the handler is about to wake it: the waker is registered before the
\* queue is found empty, and a wake between the two is kept in the futex.  It
\* does not hold for the shared page, which has no handler (serial.rs:211).
SleeperHasInput == reader = "r_asleep" /\ line = "Uart" => Waiting = <<>> \/ (irq /\ waker)

\* Input that poll announced is there for the read that follows it
\* (GenericStdin::poll, which also takes codes from the keyboard).
AnnouncedIsThere == ready => head # tail \/ Waiting # <<>>
=============================================================================
