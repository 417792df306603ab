------------------------------- MODULE MCTime -------------------------------
(* Strings at the edges of every field.  Times are computed to the end in  *)
(* the three weeks before and after 1970, where their milliseconds fit an  *)
(* integer of TLC; dates are counted over ten thousand years.              *)
EXTENDS TimeUtils

MCRelTexts ==
    [malformed : {FALSE}, negative : BOOLEAN, hours : {-1, 0, 1, 100},
     minutes : {-1, 0, 59, 60}, seconds : {0, 7, 59, 60},
     point : {TRUE},
     fraction : {<<>>, <<5>>, <<0, 4>>, <<9, 9, 9, 9, 11>>, <<0, 0, 1>>,
                 <<5, 11>>, <<Minus>>, <<Minus, 5>>, <<Minus, 0, 5, 1>>}]
    \cup
    [malformed : BOOLEAN, negative : BOOLEAN, hours : {-1, 0, 1},
     minutes : {0, 30}, seconds : {0, 59}, point : {FALSE},
     fraction : {<<>>}]

MCMinuteCounts == {-1, 0, 20, 1200}

MCZone(negative, hours, minutes) ==
    [negative |-> negative, hours |-> hours, minutes |-> minutes]

MCZones ==
    {MCZone(FALSE, 0, 0), MCZone(TRUE, 0, 0), MCZone(FALSE, 5, 30),
     MCZone(TRUE, 3, 30), MCZone(FALSE, 0, 30), MCZone(TRUE, 0, 30),
     MCZone(TRUE, 0, 59), MCZone(TRUE, 1, 0), MCZone(FALSE, 0, -5),
     MCZone(TRUE, -2, 15), MCZone(FALSE, 99, 59), MCZone(FALSE, 99, 60),
     MCZone(TRUE, 99, 99)}

MCAbsText(date, daytime, fraction, zone) ==
    [malformed |-> FALSE, year |-> date[1], month |-> date[2],
     day |-> date[3], hour |-> daytime[1], minute |-> daytime[2],
     second |-> daytime[3], fraction |-> fraction, zone |-> zone]

NearDates ==
    {<<1969, 12, 12>>, <<1969, 12, 31>>, <<1970, 1, 1>>, <<1969, 12, 32>>,
     <<1970, 1, 15>>}

Daytimes == {<<0, 0, 0>>, <<12, 30, 1>>, <<23, 59, 60>>, <<-1, 99, -9>>}

Fractions ==
    {<<>>, <<5>>, <<0, 4>>, <<1, 2, 3>>, <<9, 9, 9, 9>>, <<0, 0, 0, 7>>,
     <<9, 0, 0, 0, 0, 0, 0, 0, 0, 0>>}

FarDates ==
    {-999, -400, -101, -100, -4, -1, 0, 1, 4, 100, 399, 400, 1600, 1899,
     1900, 1904, 1969, 1970, 1972, 1999, 2000, 2001, 2024, 2100, 2400, 9999}
        \X (1..12) \X {1, 28, 29, 30, 31, 99}

MCAbsTexts ==
    {MCAbsText(d, t, f, z) :
        d \in NearDates, t \in Daytimes, f \in Fractions, z \in MCZones}
    \cup
    {MCAbsText(d, <<0, 0, 0>>, <<>>, MCZone(FALSE, 0, 0)) : d \in FarDates}
    \cup
    {[MCAbsText(<<1970, 1, 1>>, <<0, 0, 0>>, <<>>, MCZone(FALSE, 0, 0))
          EXCEPT !.malformed = TRUE]}

=============================================================================
