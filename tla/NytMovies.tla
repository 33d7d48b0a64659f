------------------------------- MODULE NytMovies -------------------------------
(***************************************************************************)
(* What the two New York Times jobs make of the movies of a file: which    *)
(* ones the loop passes over, and the column of the others.  A movie is a  *)
(* record of the three fields the jobs look at; its year is NoDate when    *)
(* DateTime.TryParse rejects publication_date.                             *)
(***************************************************************************)
EXTENDS Integers, Sequences

CONSTANT NoDate

HasDate(m) == m.year # NoDate

\* The switch of MPAAAnalyzerJob: G, PG, PG13, R, and None for all others.
MpaaColumn(m) ==
    CASE m.rating = "G" -> 1
      [] m.rating = "PG" -> 2
      [] m.rating = "PG13" -> 3
      [] m.rating = "R" -> 4
      [] OTHER -> 5

\* int.TryParse, of the strings the bounded instances use for thousand_best.
ParsesAsInt(s) == s \in {"0", "1", "2"}

\* The switch of ThousandsListAnalyzerJob: Yes, No, and no case for other numbers.
ThousandsColumn(m) ==
    CASE m.best = "1" -> 1
      [] m.best = "0" -> 2
      [] OTHER -> 0

MpaaMovies(movies) ==
    LET dated == SelectSeq(movies, HasDate)
    IN  [i \in DOMAIN dated |->
            [year |-> dated[i].year, column |-> MpaaColumn(dated[i])]]

IsListed(m) == ParsesAsInt(m.best) /\ HasDate(m)

ThousandsMovies(movies) ==
    LET listed == SelectSeq(movies, IsListed)
    IN  [i \in DOMAIN listed |->
            [year |-> listed[i].year, column |-> ThousandsColumn(listed[i])]]
================================================================================
