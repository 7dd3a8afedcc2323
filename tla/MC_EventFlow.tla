---------------------------- MODULE MC_EventFlow ----------------------------
EXTENDS EventFlow

\* Mills for prices, a contract pays 1000, and dimes for money, to stay in 32
\* bits; the code's defaults for all thresholds and limits.
OneValue == 1000
PlatformsValue == {"poly", "lim", "kalshi", "sx"}
ThetaValue == [poly |-> 25, lim |-> 5, kalshi |-> 70, sx |-> 20]
ThresholdValue == [poly |-> 970, lim |-> 988, kalshi |-> 930, sx |-> 970]
SumFloorValue == [poly |-> 800, lim |-> 850]
TightLiqValue == [poly |-> 6000, lim |-> 1300]
TightSlipValue == <<3, 10>>

\* A price and lots of 100 contracts near it.
Asks(p, lots) == [price |-> p, cost |-> p * lots, paid |-> (OneValue - p) * lots]
Bids(p, lots) == [price |-> p, cost |-> (OneValue - p) * lots, paid |-> p * lots]
Nothing == [price |-> 0, cost |-> 0, paid |-> 0]
Shape(yes, bid, no, implied) ==
  [open |-> TRUE, rated |-> TRUE, implied |-> implied, fee |-> 10, known |-> TRUE,
   traded |-> TRUE, yes |-> yes, no |-> no, bid |-> bid, raw |-> FALSE]

\* A third of the certainty, a shade cheap on YES or on NO, one that is quoted
\* on the YES side only, a likely one, one that costs too little on both sides
\* or with a NO out of the YES bid, two on deep books, and two of which three
\* cost a little too much.
Cheap == Shape(Asks(300, 2), Bids(290, 2), Asks(710, 2), 320)
CheapNo == Shape(Asks(380, 2), Bids(370, 1), Asks(610, 2), 330)
OneSided == Shape(Asks(310, 2), Nothing, Nothing, 330)
Likely == Shape(Asks(640, 2), Bids(630, 2), Nothing, 640)
Crossed == Shape(Asks(450, 2), Bids(540, 2), Asks(430, 2), 460)
Synthetic == Shape(Asks(450, 2), Bids(540, 1), Nothing, 460)
Deep == Shape(Asks(480, 500), Bids(510, 500), Asks(485, 500), 480)
DeepNo == Shape(Asks(380, 400), Bids(370, 400), Asks(610, 400), 330)
NearYes == Shape(Asks(330, 2), Bids(320, 2), Asks(700, 2), 325)
NearNo == Shape(Asks(380, 2), Bids(340, 2), Asks(660, 2), 325)
Thin == [Cheap EXCEPT !.yes = [price |-> 300, cost |-> 6, paid |-> 14]]
ThinBid == Shape(Asks(480, 2), [price |-> 540, cost |-> 60, paid |-> 70], Asks(450, 2), 500)
RawBid == [Crossed EXCEPT !.raw = TRUE, !.bid = [price |-> 540, cost |-> 1, paid |-> 2]]
Dear == [Cheap EXCEPT !.fee = 60]
Dead == [Cheap EXCEPT !.traded = FALSE]
Unknown == [Cheap EXCEPT !.known = FALSE]
Shut == [Cheap EXCEPT !.open = FALSE]
Unrated == [Cheap EXCEPT !.rated = FALSE]

Odd == {Thin, Dear, Dead, Unknown, Shut, Unrated}

Lists ==
  {<<m>> : m \in {Cheap, CheapNo, OneSided, Likely, Crossed, Synthetic, Deep, ThinBid, RawBid} \cup Odd}
    \cup {<<m, n>> : m \in {Cheap, Likely}, n \in {CheapNo, OneSided, Crossed, Dead, Shut}}
    \cup {<<Cheap, CheapNo, o>> : o \in {Cheap, CheapNo, OneSided} \cup Odd}
    \cup {<<Cheap, Cheap, Cheap>>, <<CheapNo, OneSided, CheapNo>>, <<CheapNo, CheapNo, CheapNo>>,
          <<DeepNo, DeepNo, DeepNo>>, <<NearYes, NearYes, NearYes>>, <<NearNo, NearNo, NearNo>>,
          <<Cheap, Likely, CheapNo>>}

Plainly(p, list) ==
  [platform |-> p, blacklisted |-> FALSE, closed |-> FALSE, exclusive |-> TRUE,
   deadline |-> FALSE, other |-> FALSE, series |-> FALSE, slugSeries |-> FALSE,
   lone |-> FALSE, age |-> -60, lasts |-> "day", markets |-> list]

Events ==
  LET plain == {Plainly(p, list) : p \in PlatformsValue, list \in Lists}
      pairs == {e \in plain : Len(e.markets) > 1}
      three == {e \in plain : Len(e.markets) = 3}
  IN {e \in plain : e.platform = "sx" => Len(e.markets) = 1}
       \cup {[e EXCEPT !.series = TRUE] : e \in {x \in pairs : x.platform \in {"poly", "lim"}}}
       \cup {[e EXCEPT !.slugSeries = TRUE] : e \in {x \in pairs : x.platform \in {"poly", "lim"}}}
       \cup {[e EXCEPT !.lone = TRUE] : e \in {x \in plain : x.platform = "lim" /\ Len(x.markets) = 1}}
       \cup {[e EXCEPT !.other = TRUE] : e \in {x \in three : x.platform \in {"poly", "lim"}}}
       \cup {[e EXCEPT !.age = 20] : e \in {x \in plain : Len(x.markets) = 1}}
       \cup {[e EXCEPT !.deadline = TRUE] : e \in {x \in plain : Len(x.markets) = 2}}

YesPushed == {"yes"}
=============================================================================
