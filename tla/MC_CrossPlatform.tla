-------------------------- MODULE MC_CrossPlatform --------------------------
EXTENDS CrossPlatform

\* Tottenham against Leeds in the league and again two days later, and in the
\* cup on the evening of the first; and a title race of four.
Titles == {"plain", "epl", "cup", "race", "blank"}
CanonValue == [t \in Titles |-> IF t = "blank" THEN "" ELSE t]
SportValue == [t \in Titles |-> IF t \in {"epl", "cup"} THEN "soccer" ELSE "none"]
LeagueValue == [t \in Titles |-> IF t \in {"epl", "cup"} THEN t ELSE "none"]
Football == {"plain", "epl", "cup"}
LikenessValue ==
  [p \in {CanonValue[t] : t \in Titles} \X {CanonValue[t] : t \in Titles} |->
     CASE "" \in {p[1], p[2]} -> 0
       [] p[1] = p[2] -> 100
       [] {p[1], p[2]} \subseteq Football -> 90
       [] OTHER -> 20]

ThreeWay == {"home", "draw", "away"}
EndsValue ==
  [q \in ({"league", "return", "cup", "race"} \X {"winner"})
           \cup ({"league"} \X {"half", "-0.5", "-1.5", "q1", "q2"}) |->
     CASE q[1] = "race" -> {"home", "away", "third", "fourth"}
       [] q[2] \in {"-0.5", "-1.5"} -> {"home", "away"}
       [] OTHER -> ThreeWay]

ThetaValue == [poly |-> 25, lim |-> 0, sx |-> 20]
AlikeValue == {{{"spurs"}, {"hotspurs"}}}
NoiseValue == {"fc", "win", "-0.5", "-1.5"}
DrawValue == {"draw", "tie"}

Short == [home |-> {"tottenham"}, draw |-> {"tie"}, away |-> {"leeds", "fc"},
          third |-> {"ajax"}, fourth |-> {"porto"}]
Long == [home |-> {"tottenham", "hotspur"}, draw |-> {"draw", "tottenham", "leeds"},
         away |-> {"leeds", "united"}, third |-> {"ajax", "win"}, fourth |-> {"porto"}]
NewYork == [home |-> {"cowboys"}, away |-> {"eagles"},
            third |-> {"new", "york", "giants"}, fourth |-> {"new", "york", "jets"}]

Asks0(p, d) == [price |-> p, depth |-> d]

\* YES and NO asks of each side: fair, and with the home side dear.
Fair == [home |-> <<38, 63>>, draw |-> <<25, 77>>, away |-> <<38, 64>>,
         third |-> <<10, 91>>, fourth |-> <<30, 71>>]
Dear == [home |-> <<55, 47>>, draw |-> <<20, 82>>, away |-> <<27, 74>>,
         third |-> <<9, 92>>, fourth |-> <<8, 93>>]

Row(q, title, about, end, names, prices, side) ==
  [exchange |-> q, title |-> title, about |-> about, end |-> end, told |-> NoEnd,
   side |-> side, second |-> EndsValue[about] \ {side},
   name |-> names[side], marks |-> {},
   yes |-> Asks0(prices[side][1], 40), no |-> Asks0(prices[side][2], 30),
   bid |-> Asks0(100 - prices[side][2], 20)]

Game(q, title, game, end, names, prices, sides) ==
  [i \in DOMAIN sides |-> Row(q, title, <<game, "winner">>, end, names, prices, sides[i])]

AllSides == <<"home", "draw", "away">>
Halftime(row) == [row EXCEPT !.marks = {"halftime"}, !.about = <<"league", "half">>]
NoBook(row) == [row EXCEPT !.no = Nobody]
Thin(row) == [row EXCEPT !.yes.depth = 4]
Shut(row) == [row EXCEPT !.yes = Nobody]

Listings(q, names, prices) ==
  LET league == Game(q, "plain", "league", 12, names, prices, AllSides)
      epl == Game(q, "epl", "league", 14, names, prices, AllSides)
      cup == Game(q, "cup", "cup", 20, names, prices, AllSides)
      return == Game(q, "epl", "return", 44, names, prices, AllSides)
  IN {<<>>, league, epl, cup, return \o epl, <<league[1]>>, <<epl[2], epl[3], epl[1]>>,
      <<Halftime(epl[1]), epl[2], epl[3]>>,
      [i \in 1..3 |-> NoBook(epl[i])], <<Thin(epl[1]), Shut(epl[2]), epl[3]>>,
      [i \in 1..3 |-> [epl[i] EXCEPT !.end = NoEnd]],
      [i \in 1..3 |-> [epl[i] EXCEPT !.end = NoEnd, !.told = 14]]}

\* The title race.
Race(q, names, prices, sides) == Game(q, "race", "race", NoEnd, names, prices, sides)

\* What may mislead: the cup under a title without a league, two lines of a
\* handicap, two quarters, a half that SX asks two ways, two names of a race with
\* two words in common; and a market listed twice, and titles of which nothing is
\* left.
Line(row, line) ==
  [row EXCEPT !.marks = {"handicap"}, !.about = <<"league", line>>, !.second = {"away"}]
TwoWay(row) == [row EXCEPT !.second = {"away"}]
Quarter(row, n) == [row EXCEPT !.marks = {"period"}, !.about = <<"league", n>>]

Misleading(q, names, prices) ==
  LET epl == Game(q, "epl", "league", 14, names, prices, AllSides)
  IN {epl, Game(q, "plain", "cup", 20, names, prices, AllSides),
      <<Line(epl[1], "-0.5")>>, <<Line(epl[1], "-1.5")>>,
      <<IF q = "sx" THEN TwoWay(Halftime(epl[1])) ELSE Halftime(epl[1])>>,
      [i \in 1..3 |-> Quarter(epl[i], "q1")], [i \in 1..3 |-> Quarter(epl[i], "q2")],
      Race(q, NewYork, prices, <<"home", "away", "third", "fourth">>),
      Race(q, NewYork, prices, <<"home", "away", "fourth", "third">>),
      epl \o <<epl[2], epl[3]>>,
      Game(q, "blank", "league", 14, names, prices, AllSides)}

Both(q, names) == Listings(q, names, Fair) \cup Listings(q, names, Dear)
Odd(q, names) == Misleading(q, names, Fair) \cup Misleading(q, names, Dear)

Lists ==
  [poly : Both("poly", Long), lim : Both("lim", Short), sx : Both("sx", Long)]
    \cup [poly : Odd("poly", Long), lim : Odd("lim", Short), sx : Odd("sx", Long)]

\* Of the title race, one exchange has a single market, another three of four.
Races ==
  {[poly |-> Race("poly", Long, Dear, <<"fourth">>), lim |-> Race("lim", Short, Dear, s), sx |-> <<>>] :
     s \in {<<"home", "away", "third", "fourth">>, <<"away", "third", "fourth">>}}
=============================================================================
