-------------------------------- MODULE MCReplay --------------------------------
(* A small bake-off. Five seconds stand for five minutes and ten for an hour;    *)
(* requests come at once, while a response is awaited, or when entries end.      *)
EXTENDS LifetimeFinding, TLC

CONSTANTS a, b, c, d, ours, theirs, unordered, unpriced, unlisted

Neutral ==
  [haircut |-> 0, missInN |-> 0, latency |-> 0, lookback |-> FALSE, order |-> <<>>]
Pessimistic ==
  [haircut |-> 20, missInN |-> 2, latency |-> 1, lookback |-> TRUE, order |-> <<>>]
Relocated == [Neutral EXCEPT !.order = <<2, 1>>]

BakeOff == {Neutral, Pessimistic, Relocated}

Request(scope, segs, marks, firstAfter) ==
  [scope |-> scope, segs |-> segs, marks |-> marks, firstAfter |-> firstAfter]

Short(i) == i :> "5m"
Long(i) == i :> "1h"

Sizes == a :> 2 @@ b :> 1 @@ c :> 1 @@ d :> 1
Minimums == ours :> 2 @@ theirs :> 2 @@ unordered :> 2 @@ unpriced :> Unknown @@ unlisted :> 2
Windows == ours :> 1 @@ theirs :> Unknown @@ unordered :> Unknown @@ unpriced :> 1
             @@ unlisted :> Unknown
Seconds == "5m" :> 5 @@ "1h" :> 10

Traffic == {
  Request(ours, <<a, b>>, Short(2), Unknown),
  Request(ours, <<a, b, c>>, Short(1) @@ Short(3), 2),
  Request(ours, <<a, b, c>>, Long(1) @@ Short(3), Unknown),
  Request(ours, <<a, b, c, d>>, Short(1) @@ Short(4), Unknown),
  Request(ours, <<a, b, d>>, Long(2) @@ Short(3), Unknown),
  Request(ours, <<a, d>>, Short(1), Unknown),
  Request(ours, <<a, d>>, Long(1), 2),
  Request(theirs, <<a, b>>, Short(2), Unknown)}

Oddities == {
  Request(ours, <<b>>, Short(1), Unknown),
  Request(ours, <<>>, <<>>, Unknown),
  Request(ours, <<a>>, 1 :> "30m", Unknown),
  Request(unpriced, <<a>>, Short(1), Unknown),
  Request(unlisted, <<a>>, Short(1), Unknown)}

\* Registry data of anthropic/direct.
AnthropicDirect == [write5m |-> 125, write1h |-> 200, read |-> 10]

\* A conversation that grows, and is sometimes asked the same thing twice.
OnlyNeutral == {Neutral}
NoWindow == [s \in {ours, theirs, unordered, unpriced, unlisted} |-> Unknown]
Conversation == {
  Request(ours, <<a>>, Short(1), Unknown),
  Request(ours, <<a, b>>, Short(2), Unknown),
  Request(ours, <<a, b, c>>, Short(3), Unknown)}

All == Traffic \cup Oddities

ASSUME ResponsesBeginInTime == ResponsesBegin

==================================================================================
