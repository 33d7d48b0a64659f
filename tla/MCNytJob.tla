------------------------------- MODULE MCNytJob -------------------------------
(***************************************************************************)
(* NytJob as MPAAAnalyzerJob and as ThousandsListAnalyzerJob, on small     *)
(* directories of the New York Times miner, which names its files by date. *)
(***************************************************************************)
EXTENDS NytJob, NytMovies, TLC

MCYear == {"1996", "1997"}

March == <<"1996-03-29", "json">>
October == <<"1996-10-04", "json">>
January == <<"1997-01-01", "json">>

M(year, rating, best) == [year |-> year, rating |-> rating, best |-> best]

\* Two files that share a year, one of which also has the other year and a movie
\* without a date, and one file without movies.
Mixed ==
    (March :> <<M("1996", "R", "1"), M("1997", "PG13", "0"), M(NoDate, "G", "1")>>)
    @@ (October :> <<M("1996", "R", "1"), M("1996", "Unrated", "2")>>)
    @@ (January :> <<>>)

\* Files of one year only: no callback adds a year late.
SameYear == (March :> <<M("1996", "PG", "1"), M("1996", "G", "0")>>)
            @@ (October :> <<M("1996", "PG", "1")>>)

\* A key without a dot beside the miner's files.
Stray == (March :> <<M("1996", "R", "0")>>) @@ (<<"folder">> :> <<>>)

Mpaa(d) == [columns |-> 5, dir |-> [f \in DOMAIN d |-> MpaaMovies(d[f])]]
Thousands(d) == [columns |-> 2, dir |-> [f \in DOMAIN d |-> ThousandsMovies(d[f])]]

MCTasks == {Mpaa(Mixed), Mpaa(SameYear), Mpaa(Stray), Thousands(Mixed)}
================================================================================
