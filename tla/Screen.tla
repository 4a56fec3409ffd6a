------------------------------- MODULE Screen -------------------------------
(***************************************************************************)
(* The text screen (devices/Screen.h): two ScreenSegments, for StdOut and  *)
(* StdErr, that write characters into their lines of the shadow buffer and *)
(* of video memory, and scroll.  A character takes two bytes, the second   *)
(* one is its attribute.                                                   *)
(***************************************************************************)
EXTENDS Integers, Sequences, SequencesExt, FiniteSetsExt

CONSTANTS XMax,      \* bytes in a line, 160 in the code
          Segments,  \* segment -> <<firstline, lastline>>
          MaxText    \* characters written in a behaviour

VARIABLES buffer, video, position, text

Newline == 10
screenVars == <<buffer, video, position, text>>

YMax == Max({Segments[s][2] : s \in DOMAIN Segments})
SegOffset(s) == (Segments[s][1] - 1) * XMax
SegLength(s) == (1 + Segments[s][2] - Segments[s][1]) * XMax

ScreenInit ==
  /\ buffer = [i \in 0..(XMax * YMax - 1) |-> 0] /\ video = buffer
  /\ position = [s \in DOMAIN Segments |-> SegOffset(s)]
  /\ text = [s \in DOMAIN Segments |-> <<>>]

\* memmove, memset and memcpy of scroll
Scroll(b, o, n) ==
  [i \in DOMAIN b |-> IF i < o \/ i >= o + n THEN b[i]
                      ELSE IF i >= o + n - XMax THEN 0 ELSE b[i + XMax]]

PutChar_Late(s, c) ==
  LET pos == IF c = Newline THEN (position[s] \div XMax + 1) * XMax ELSE position[s] + 2
      put(m) == IF c = Newline THEN m ELSE [m EXCEPT ![position[s]] = c, ![position[s] + 1] = 7]
      full == pos > SegOffset(s) + SegLength(s)
      copied(m) == [i \in DOMAIN m |-> IF SegOffset(s) <= i /\ i < SegOffset(s) + SegLength(s)
                                         THEN buffer'[i] ELSE m[i]] IN
  /\ buffer' = IF full THEN Scroll(put(buffer), SegOffset(s), SegLength(s)) ELSE put(buffer)
  /\ video' = IF full THEN copied(put(video)) ELSE put(video)
  /\ position' = [position EXCEPT ![s] = IF full THEN pos - XMax ELSE pos]

PutChar(s, c) ==
  LET pos == IF c = Newline THEN (position[s] \div XMax + 1) * XMax ELSE position[s] + 2
      put(m) == IF c = Newline THEN m ELSE [m EXCEPT ![position[s]] = c, ![position[s] + 1] = 7]
      full == pos >= SegOffset(s) + SegLength(s)
      copied(m) == [i \in DOMAIN m |-> IF SegOffset(s) <= i /\ i < SegOffset(s) + SegLength(s)
                                         THEN buffer'[i] ELSE m[i]] IN
  /\ buffer' = IF full THEN Scroll(put(buffer), SegOffset(s), SegLength(s)) ELSE put(buffer)
  /\ video' = IF full THEN copied(put(video)) ELSE put(video)
  /\ position' = [position EXCEPT ![s] = IF full THEN pos - XMax ELSE pos]

SegmentWrite(s, c) ==
  /\ FoldFunction(LAMBDA t, n : Len(t) + n, 0, text) < MaxText
  /\ text' = [text EXCEPT ![s] = Append(@, c)]
  /\ PutChar(s, c)

ScreenNext == \E s \in DOMAIN Segments, c \in {Newline, 97, 98} : SegmentWrite(s, c)

\* What a reader expects: lines break at a newline or when they are full.
Lines(t) ==
  FoldLeft(LAMBDA ls, c :
             LET row == IF c = Newline THEN Last(ls) ELSE Append(Last(ls), c) IN
             IF c = Newline \/ 2 * Len(row) = XMax THEN SubSeq(ls, 1, Len(ls) - 1) \o <<row, <<>>>>
                                                ELSE SubSeq(ls, 1, Len(ls) - 1) \o <<row>>,
           <<<<>>>>, t)

(* Each segment shows the last lines of what was written to it, whatever is *)
(* written to the other one in between: scrolling never moves or overwrites *)
(* a byte of the neighbour, and video memory equals the shadow buffer.      *)
SegmentsShowTheirText ==
  /\ video = buffer
  /\ \A s \in DOMAIN Segments :
       LET ls == Lines(text[s])
           height == SegLength(s) \div XMax
           skip == IF Len(ls) > height THEN Len(ls) - height ELSE 0 IN
       /\ SegOffset(s) <= position[s] /\ position[s] < SegOffset(s) + SegLength(s)
       /\ \A r \in 1..height, k \in 1..(XMax \div 2) :
            buffer[SegOffset(s) + (r - 1) * XMax + 2 * (k - 1)] =
              IF skip + r <= Len(ls) /\ k <= Len(ls[skip + r]) THEN ls[skip + r][k] ELSE 0
=============================================================================
