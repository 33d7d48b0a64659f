------------------------------ MODULE MCGenreJob ------------------------------
(***************************************************************************)
(* GenreJob on small directories of the RottenTomatoes miner.              *)
(***************************************************************************)
EXTENDS GenreJob, TLC

CONSTANTS drama, comedy

MCGenre == {drama, comedy}

Up == <<"Up", "json">>
Jaws == <<"Jaws", "json">>
Mr == <<"Mr", "json">>
MrX == <<"Mr", " X", "json">>      \* listed as "Mr", read back as Mr.json
DrNo == <<"Dr", " No", "json">>    \* listed as "Dr": no such file
Readme == <<"README">>             \* a name without a dot

\* Three files that share genres, one of them with two genres.
Plain == (Up :> <<drama, comedy>>) @@ (Jaws :> <<drama>>) @@ (Mr :> <<comedy>>)

\* Names with a second dot, one with and one without the file its stem denotes,
\* and a file without genres.
Dotted == (Mr :> <<drama>>) @@ (MrX :> <<comedy>>) @@ (DrNo :> <<comedy>>)
          @@ (Up :> <<>>)

\* A genre that is listed twice in a file, beside another file with it.
Twice == (Up :> <<drama, drama>>) @@ (Jaws :> <<drama>>)

\* A key without a dot beside a movie.
Stray == (Up :> <<comedy>>) @@ (Readme :> <<>>)

MCDirectories == {Plain, Dotted, Twice, Stray, [f \in {} |-> <<>>]}
===============================================================================
