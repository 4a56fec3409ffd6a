------------------------------ MODULE Keyboard ------------------------------
(***************************************************************************)
(* The PS/2 keyboard driver (devices/Keyboard.cc): the decoder that turns  *)
(* the bytes of AT scan code set 2 into key codes, driven by a typist.     *)
(* The device emits the bytes of one key as a whole and acknowledges the   *)
(* two bytes of SetLeds some time later ("asynchronously", line 369).      *)
(***************************************************************************)
EXTENDS Integers, Sequences, FiniteSets, SequencesExt, TLC

CONSTANTS Keys,         \* the keys the typist uses, of DOMAIN ScanCode
          MaxStrokes,   \* presses and releases of a behaviour
          KeyLimit      \* capacity of kbq, 256 in the code

VARIABLES kbdOn,    \* init has registered the interrupt handler
          fifo,     \* bytes in the controller's output buffer and the device
          pressed,  \* keys that are down
          strokes, leds, ackDue,  \* the device: events so far, lock keys, bytes to acknowledge
          kbd,      \* the members of class Keyboard, see KbdInit
          kbq,      \* the key buffer
          sent, typed,   \* what was passed to trySend; what the typist meant
          resetLine      \* why Reboot was called: 0 if not, OnRequest, or the byte that failed an assertion

kbdVars == <<kbdOn, fifo, pressed, strokes, leds, ackDue, kbd, kbq, sent, typed, resetLine>>
deviceVars == <<pressed, strokes, leds, ackDue, typed>>

\* The keys the model tells apart: XT make code, and the two columns of tableXTtoKey.
TableXTtoKey ==
  29 :> <<"lctrl", "rctrl">> @@ 42 :> <<"lshift", "prtscr">> @@ 54 :> <<"rshift", "unknown">> @@
  56 :> <<"lalt", "ralt">> @@ 58 :> <<"capslock", "unknown">> @@ 69 :> <<"numlock", "unknown">> @@
  70 :> <<"scrolllock", "unknown">> @@ 30 :> <<"a", "unknown">> @@ 2 :> <<"1", "unknown">> @@
  83 :> <<"kp_dot", "delete">>

TableATtoXT ==
  20 :> 29 @@ 18 :> 42 @@ 89 :> 54 @@ 17 :> 56 @@ 88 :> 58 @@ 119 :> 69 @@ 126 :> 70 @@
  28 :> 30 @@ 22 :> 2 @@ 113 :> 83

\* What the device sends: set 2 code, and whether 0xE0 precedes it.
ScanCode ==
  [lctrl |-> <<20, FALSE>>, rctrl |-> <<20, TRUE>>, lshift |-> <<18, FALSE>>, rshift |-> <<89, FALSE>>,
   lalt |-> <<17, FALSE>>, ralt |-> <<17, TRUE>>, capslock |-> <<88, FALSE>>, numlock |-> <<119, FALSE>>,
   scrolllock |-> <<126, FALSE>>, letter |-> <<28, FALSE>>, digit |-> <<22, FALSE>>,
   kp_dot |-> <<113, FALSE>>, delete |-> <<113, TRUE>>, f7 |-> <<131, FALSE>>]
KeyOf(k) == IF k = "letter" THEN "a" ELSE IF k = "digit" THEN "1" ELSE k

E0 == 224
E1 == 225
BreakCode == 240
ERR_ACK == 250
F7 == 131
OnRequest == 1
Bytes(k, break) ==
  (IF ScanCode[k][2] THEN <<E0>> ELSE <<>>) \o (IF break THEN <<BreakCode>> ELSE <<>>) \o <<ScanCode[k][1]>>
PauseBytes == <<E1, 20, 119, E1, BreakCode, 20, BreakCode, 119>>

KbdInit ==
  /\ kbdOn = FALSE /\ fifo = <<>> /\ pressed = {} /\ strokes = 0 /\ leds = {} /\ ackDue = 0
  /\ kbd = [is_break |-> FALSE, shift |-> FALSE, alt |-> FALSE, ctrl |-> FALSE,
            led |-> {}, acks |-> 0, extended |-> 0]
  /\ kbq = <<>> /\ sent = <<>> /\ typed = <<>> /\ resetLine = 0

\* init: after a failed self test, or without a keyboard, no handler is registered.
KeyboardInit ==
  /\ ~kbdOn /\ kbdOn' = TRUE /\ fifo' = <<>>
  /\ UNCHANGED <<deviceVars, kbd, kbq, sent, resetLine>>

(******************************* the decoder *******************************)
LockKey == [scrolllock |-> 1, numlock |-> 2, capslock |-> 4]
ModifierOf_LeftOnly == [lctrl |-> "ctrl", lshift |-> "shift", lalt |-> "alt"]
ModifierOf == [lctrl |-> "ctrl", rctrl |-> "ctrl", lshift |-> "shift", rshift |-> "shift",
               lalt |-> "alt", ralt |-> "alt"]
Toggle(S, x) == IF x \in S THEN S \ {x} ELSE S \cup {x}

\* From the escape for alt to the end of the loop body: what is sent for a key.
Translate(key, shift, ctrl, led) ==
  CASE key = "a" /\ (shift \/ 4 \in led) -> "A"
    [] key = "a" /\ ~shift /\ 4 \notin led /\ ctrl -> "^A"
    [] key = "1" /\ shift -> "!"
    [] key = "kp_dot" -> IF 2 \in led THEN "." ELSE "delete"
    [] OTHER -> key
Strings(key, shift, alt, ctrl, led) ==
  (IF alt THEN <<"escape">> ELSE <<>>) \o <<Translate(key, shift, ctrl, led)>>

Offer(q, s) == q \o SubSeq(s, 1, IF KeyLimit - Len(q) < Len(s) THEN KeyLimit - Len(q) ELSE Len(s))

\* A key is complete: `k` is the decoder with extended reset.
Finish(k, key) ==
  \/ /\ k.is_break
     /\ kbd' = IF key \in DOMAIN ModifierOf
                 THEN [k EXCEPT !.is_break = FALSE, ![ModifierOf[key]] = FALSE]
                 ELSE [k EXCEPT !.is_break = FALSE]
     /\ UNCHANGED <<ackDue, kbq, sent, resetLine>>
  \/ /\ ~k.is_break /\ key \in DOMAIN ModifierOf
     /\ kbd' = [k EXCEPT ![ModifierOf[key]] = TRUE]
     /\ UNCHANGED <<ackDue, kbq, sent, resetLine>>
  \/ /\ ~k.is_break /\ key \in DOMAIN LockKey          \* SetLeds
     /\ kbd' = [k EXCEPT !.led = Toggle(@, LockKey[key]), !.acks = @ + 2]
     /\ ackDue' = ackDue + 2
     /\ UNCHANGED <<kbq, sent, resetLine>>
  \/ /\ ~k.is_break /\ key \notin DOMAIN ModifierOf \cup DOMAIN LockKey
     /\ kbd' = k
     /\ LET s == Strings(key, k.shift, k.alt, k.ctrl, k.led) IN
          IF k.alt /\ k.ctrl /\ key = "delete"
            THEN resetLine' = OnRequest /\ UNCHANGED <<kbq, sent>>
            ELSE kbq' = Offer(kbq, s) /\ sent' = sent \o s /\ UNCHANGED resetLine
     /\ UNCHANGED ackDue

ByteExpected_NoPause(k, b) ==
  \/ b \in {E0, E1, ERR_ACK, BreakCode}
  \/ b \in DOMAIN TableATtoXT /\ k.extended \in {0, 1}

\* The assertions of the decoder on the byte it has read; the table ends at 0x7f.
ByteExpected(k, b) ==
  \/ b \in {E0, E1} /\ k.extended = 0
  \/ b \in {ERR_ACK, BreakCode}
  \/ /\ b \in DOMAIN TableATtoXT
     /\ \/ k.extended \in {0, 1}
        \/ k.extended = 2 /\ TableATtoXT[b] = 29
        \/ k.extended = 3 /\ TableATtoXT[b] = 69

\* One round of the loop of irqHandlerInternal; a failed assertion reboots.
IrqHandlerInternal ==
  LET b == Head(fifo)
      plain == [kbd EXCEPT !.extended = 0] IN
  /\ kbdOn /\ fifo # <<>> /\ resetLine = 0 /\ fifo' = Tail(fifo)
  /\ UNCHANGED <<kbdOn, pressed, strokes, leds, typed>>
  /\ \/ ~ByteExpected(kbd, b) /\ resetLine' = b /\ UNCHANGED <<ackDue, kbd, kbq, sent>>
     \/ /\ ByteExpected(kbd, b) /\ b \notin DOMAIN TableATtoXT
        /\ kbd' = CASE b = E0 -> [kbd EXCEPT !.extended = 1]
                    [] b = E1 -> [kbd EXCEPT !.extended = 2]
                    [] b = ERR_ACK -> [kbd EXCEPT !.acks = @ - 1]
                    [] b = BreakCode -> [kbd EXCEPT !.is_break = TRUE]
        /\ UNCHANGED <<ackDue, kbq, sent, resetLine>>
     \/ /\ ByteExpected(kbd, b) /\ b \in DOMAIN TableATtoXT
        /\ IF kbd.extended = 2
             THEN kbd' = [kbd EXCEPT !.extended = 3] /\ UNCHANGED <<ackDue, kbq, sent, resetLine>>
             ELSE Finish(plain, IF kbd.extended = 3 THEN "pause"
                                ELSE TableXTtoKey[TableATtoXT[b]][kbd.extended + 1])

\* read() by the shell or a test
ReadKey ==
  /\ kbq # <<>> /\ kbq' = Tail(kbq)
  /\ UNCHANGED <<kbdOn, fifo, deviceVars, kbd, sent, resetLine>>

(************************* the typist and the device ***********************)
Down(S) == pressed \cap S # {}
Means(key) ==
  IF key = "delete" /\ Down({"lalt", "ralt"}) /\ Down({"lctrl", "rctrl"}) THEN <<"reboot">> ELSE
  Strings(key, Down({"lshift", "rshift"}), Down({"lalt", "ralt"}), Down({"lctrl", "rctrl"}), leds)

Stroke == kbdOn /\ resetLine = 0 /\ strokes < MaxStrokes /\ strokes' = strokes + 1

PressKey(k) ==
  /\ Stroke /\ k \notin pressed
  /\ pressed' = pressed \cup {k} /\ fifo' = fifo \o Bytes(k, FALSE)
  /\ leds' = IF k \in DOMAIN LockKey THEN Toggle(leds, LockKey[k]) ELSE leds
  /\ typed' = IF k \in DOMAIN LockKey \cup DOMAIN ModifierOf THEN typed ELSE typed \o Means(KeyOf(k))
  /\ UNCHANGED <<kbdOn, ackDue, kbd, kbq, sent, resetLine>>

ReleaseKey(k) ==
  /\ Stroke /\ k \in pressed
  /\ pressed' = pressed \ {k} /\ fifo' = fifo \o Bytes(k, TRUE)
  /\ UNCHANGED <<kbdOn, leds, ackDue, typed, kbd, kbq, sent, resetLine>>

PressPause ==
  /\ Stroke /\ fifo' = fifo \o PauseBytes /\ typed' = typed \o Means("pause")
  /\ UNCHANGED <<kbdOn, pressed, leds, ackDue, kbd, kbq, sent, resetLine>>

DeviceAck ==
  /\ ackDue > 0 /\ ackDue' = ackDue - 1 /\ fifo' = Append(fifo, ERR_ACK)
  /\ UNCHANGED <<kbdOn, pressed, strokes, leds, typed, kbd, kbq, sent, resetLine>>

KbdNext ==
  \/ KeyboardInit \/ IrqHandlerInternal \/ ReadKey \/ DeviceAck \/ PressPause
  \/ \E k \in Keys : PressKey(k) \/ ReleaseKey(k)

-----------------------------------------------------------------------------

(* However keys overlap and however late the LED bytes are acknowledged,    *)
(* the decoder is back in its ground state once it has read everything, has *)
(* followed shift, alt, ctrl and the lock keys, and has offered exactly the *)
(* keys that were typed, in order, as long as the typist does not hold both *)
(* keys of a pair (irqHandlerInternal keeps one flag per pair).             *)
KeysExact ==
  kbdOn /\ fifo = <<>> /\ resetLine = 0 =>
    /\ sent = typed /\ kbd.acks = ackDue
    /\ kbd.extended = 0 /\ ~kbd.is_break /\ kbd.led = leds
    /\ \A k \in pressed \cap DOMAIN ModifierOf : kbd[ModifierOf[k]]
    /\ kbd.shift => Down({"lshift", "rshift"})
    /\ kbd.alt => Down({"lalt", "ralt"})
    /\ kbd.ctrl => Down({"lctrl", "rctrl"})

(* The driver resets the machine for ctrl+alt+del, after it has offered     *)
(* every key typed before: no other byte sequence of these keys, the eight  *)
(* bytes of pause included, fails an assertion of the decoder.  F7 is the   *)
(* exception: its code 0x83 is past the end of tableATtoXT (line 488).      *)
ResetOnlyOnRequest ==
  /\ resetLine \in {0, OnRequest, F7}
  /\ resetLine = OnRequest => IsPrefix(Append(sent, "reboot"), typed)
=============================================================================
