-------------------------------- MODULE Tty --------------------------------
(***************************************************************************)
(* The keyboard driver and the terminals: kernel/keyboard.c and the state  *)
(* task_tty (kernel/tty.c) keeps for each console.  What the task does     *)
(* between two system calls is an operator here; Terminal composes them    *)
(* with the message passing of the kernel, FS and the user processes.      *)
(*                                                                         *)
(* A scan code stands for the effect keyboard_read and in_process give it: *)
(* "c" any printable key, "NL" Enter, "BS" Backspace, "F1".."F3" Ctrl and  *)
(* that function key, "none" a break code or a key that changes no state   *)
(* of a terminal, "E0" the prefix after which keyboard_read waits for a    *)
(* second byte.  (PrintScreen and Pause, which have more bytes, are left   *)
(* out, as are the leds and what is on the screen.)                        *)
(***************************************************************************)
EXTENDS Integers, Sequences

CONSTANTS
    NR_CONSOLES,   \* include/sys/const.h: 3
    KB_IN_BYTES,   \* capacity of the ring of scan codes: 32
    TTY_IN_BYTES,  \* capacity of a terminal's ring of characters: 256
    Key,           \* what is typed: each key is the sequence of its codes
    MaxKeys        \* bound of the model: how many keys are typed

ASSUME TtyAssumption ==
    /\ NR_CONSOLES \in 1 .. 3
    /\ KB_IN_BYTES \in Nat \ {0} /\ TTY_IN_BYTES \in Nat \ {0}
    /\ MaxKeys \in Nat

VARIABLES
    wire,          \* the codes of the key being typed that are still to come
    keys,          \* how many keys have been typed
    kb_in,         \* the ring of scan codes, oldest first
    key_pressed,   \* tells clock_handler to wake the TTY task
    nr_current_console,
    ibuf,          \* ibuf[t]: the ring of characters of terminal t
    tty_procnr,    \* tty_procnr[t]: who reads from t
    tty_left_cnt, tty_trans_cnt

keyboard == <<wire, keys, kb_in, key_pressed>>
reader == <<tty_procnr, tty_left_cnt, tty_trans_cnt>>
ttyVars == <<keyboard, nr_current_console, ibuf, reader>>

Console == 1 .. NR_CONSOLES
FKey == <<"F1", "F2", "F3">>
Char == {"c", "NL", "BS"}
Code == Char \cup {"none", "E0"} \cup {FKey[i] : i \in DOMAIN FKey}

TtyInit(nobody) ==
    /\ wire = <<>> /\ keys = 0
    /\ kb_in = <<>> /\ key_pressed = FALSE
    /\ nr_current_console = 1
    /\ ibuf = [t \in Console |-> <<>>]
    /\ tty_procnr = [t \in Console |-> nobody]
    /\ tty_left_cnt = [t \in Console |-> 0]
    /\ tty_trans_cnt = [t \in Console |-> 0]

-----------------------------------------------------------------------------
(***************************************************************************)
(* The keyboard: its codes reach keyboard_handler one interrupt each.      *)
(***************************************************************************)

\* Mutant: the ring is not checked to be full.
keyboard_handler_unchecked(code) ==
    /\ kb_in' = Append(kb_in, code)
    /\ key_pressed' = TRUE
    /\ UNCHANGED <<nr_current_console, ibuf, reader>>

keyboard_handler(code) ==
    /\ kb_in' = IF Len(kb_in) < KB_IN_BYTES THEN Append(kb_in, code) ELSE kb_in
    /\ key_pressed' = TRUE
    /\ UNCHANGED <<nr_current_console, ibuf, reader>>

\* Key k is typed, the rest of its codes will follow.
KeyTyped(k) ==
    /\ wire = <<>> /\ keys < MaxKeys
    /\ wire' = Tail(k) /\ keys' = keys + 1
    /\ keyboard_handler(Head(k))

KeyGoesOn ==
    /\ wire # <<>>
    /\ wire' = Tail(wire)
    /\ keyboard_handler(Head(wire))
    /\ UNCHANGED keys

-----------------------------------------------------------------------------
(***************************************************************************)
(* keyboard_read and in_process, for terminal t.                           *)
(***************************************************************************)

get_byte_from_kbuf ==
    /\ kb_in # <<>>
    /\ kb_in' = Tail(kb_in)
    /\ UNCHANGED <<wire, keys, key_pressed, reader>>

put_key(t, ch) ==
    ibuf' = [ibuf EXCEPT ![t] = IF Len(@) < TTY_IN_BYTES THEN Append(@, ch) ELSE @]

in_process(t, code) ==
    \/ /\ code \in Char
       /\ put_key(t, code)
       /\ UNCHANGED nr_current_console
    \/ \E c \in Console :        \* select_console
          /\ code = FKey[c]
          /\ nr_current_console' = c
          /\ UNCHANGED ibuf
    \/ /\ code \notin Char \cup {FKey[c] : c \in Console}
       /\ UNCHANGED <<nr_current_console, ibuf>>

-----------------------------------------------------------------------------
(***************************************************************************)
(* tty_dev_write: one character of t's ring.  It reaches the reader, if    *)
(* there is one, takes back the last one, or is dropped.                   *)
(***************************************************************************)

\* Mutant: a backspace takes back a character that was never typed.
TransAfterUnchecked(t, ch) ==
    tty_trans_cnt[t] + (CASE ch = "c" -> 1 [] ch = "BS" -> -1 [] OTHER -> 0)

TransAfter(t, ch) ==
    CASE tty_left_cnt[t] > 0 /\ ch = "c" -> tty_trans_cnt[t] + 1
      [] tty_left_cnt[t] > 0 /\ ch = "BS" /\ tty_trans_cnt[t] > 0 -> tty_trans_cnt[t] - 1
      [] OTHER -> tty_trans_cnt[t]

LeftAfter(t, ch) == tty_left_cnt[t] + tty_trans_cnt[t] - TransAfter(t, ch)

\* Mutant: only Enter ends a read.
CompletesByEnter(t, ch) == tty_left_cnt[t] > 0 /\ ch = "NL"

\* The character ends t's read: the line is complete or the buffer full.
Completes(t, ch) ==
    /\ tty_left_cnt[t] > 0
    /\ ch = "NL" \/ LeftAfter(t, ch) = 0

tty_dev_write(t) ==
    LET ch == Head(ibuf[t]) IN
    /\ ibuf[t] # <<>>
    /\ ibuf' = [ibuf EXCEPT ![t] = Tail(@)]
    /\ tty_trans_cnt' = [tty_trans_cnt EXCEPT ![t] = TransAfter(t, ch)]
    /\ tty_left_cnt' = [tty_left_cnt EXCEPT ![t] = IF Completes(t, ch) THEN 0 ELSE LeftAfter(t, ch)]
    /\ UNCHANGED <<keyboard, nr_current_console, tty_procnr>>

(***************************************************************************)
(* tty_do_read: p becomes the reader of t, whoever was.                    *)
(***************************************************************************)
tty_do_read(t, p, cnt) ==
    /\ tty_procnr' = [tty_procnr EXCEPT ![t] = p]
    /\ tty_left_cnt' = [tty_left_cnt EXCEPT ![t] = cnt]
    /\ tty_trans_cnt' = [tty_trans_cnt EXCEPT ![t] = 0]
    /\ UNCHANGED <<keyboard, nr_current_console, ibuf>>
=============================================================================
