--------------------------- MODULE MCCgmPictures ----------------------------
(***************************************************************************)
(* Scenes of 40, 290 and 800 millimetres; the tallest needs coarser units  *)
(* when it is one picture.  Curves of up to 21 points where a command      *)
(* holds ten, so that a line takes several commands and a long header.    *)
(***************************************************************************)
EXTENDS Integers, Sequences

VARIABLES scene, options, phase, at, commands, pictures, diag

Interval(top, height, pattern, alpha) ==
  [left |-> 5, top |-> top, width |-> 6, height |-> height, fill |-> 100,
   pattern |-> pattern, alpha |-> alpha]
Fill(top, height, pattern) ==
  [left |-> 12, top |-> top, width |-> 5, height |-> height, fill |-> 60, pattern |-> pattern,
   alpha |-> TRUE,
   ring |-> <<<<12, top>>, <<17, top>>, <<17, top + height>>, <<12, top + height>>>>]
Track(id, left, height) == [id |-> id, left |-> left, top |-> 0, width |-> 20, height |-> height]
Header(track, latin, other) == [track |-> track, latin |-> latin, other |-> other]
\* Points a step apart that swing between two columns.
Line(n, step) == [i \in 1..n |-> <<3 + (i % 2), (i - 1) * step>>]
Curve(colour, visible, segments) ==
  [colour |-> colour, visible |-> visible, width |-> 25, segments |-> segments]

MCScenes ==
  {[width |-> 40, height |-> h,
    intervals |-> <<Interval(t, 8, TRUE, FALSE), Interval(t + 10, 1, FALSE, TRUE),
                   Interval(0, h, FALSE, FALSE)>>,
    fills |-> <<Fill(t + 2, 6, pattern)>>,
    tracks |-> <<Track("t1", 0, h), Track("t2", 20, h)>>,
    headers |-> <<Header("t1", 2, 0), Header("t1", latin, 1), Header("t2", 3, 0)>>,
    curves |-> <<Curve(200, TRUE, <<Line(n, h \div 20)>>), Curve(210, FALSE, <<Line(2, 1)>>),
                 Curve(220, TRUE, <<Line(2, 1), <<<<9, 1>>>>, <<<<8, 2>>, <<9, h>>, <<8, 4>>, <<7, 6>>>> >>)>>] :
     h \in {40, 290, 800}, t \in {0, 25}, pattern \in BOOLEAN, latin \in {0, 4}, n \in {10, 11, 21}}
  \cup {[width |-> 0, height |-> 40, intervals |-> <<>>, fills |-> <<>>, tracks |-> <<>>,
         headers |-> <<>>, curves |-> <<>>]}
MCOptions ==
  {[page |-> page, overlap |-> overlap, hatch |-> 2] : page \in {0, 20, 280}, overlap \in {0, 50}}

INSTANCE CgmPictures WITH Scenes <- MCScenes, Options <- MCOptions, MaxWindows <- 6,
  MaxPoints <- 10
=============================================================================
