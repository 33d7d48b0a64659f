--------------------------- MODULE AnalyzerStorage ---------------------------
(***************************************************************************)
(* The S3 directory an analysis job reads, as AWSStorageClientClient shows *)
(* it to the job.  A file name is the sequence of its dot-separated parts: *)
(* "Up.json" is <<"Up", "json">>, "Mr. X.json" is <<"Mr", " X", "json">>.  *)
(* A directory is a function from its file names to what the job makes of  *)
(* the text of each file.                                                  *)
(***************************************************************************)
EXTENDS Integers, Sequences

\* A name without a dot: IndexOf returns -1, and Substring(0, -1) throws.
HasNoDot(name) == Len(name) < 2

\* GetAllFileNames throws for the whole directory if one name has no dot.
ListingThrows(dir) == \E name \in DOMAIN dir : HasNoDot(name)

\* What GetAllFileNames returns for a file: its name up to the FIRST dot.
Stem(name) == name[1]

\* string.Format("{0}.{1}", fileName, "json"), the name that is opened again.
FullFileName(stem) == <<stem, "json">>

\* GetFileContents for a listed file: the content of the file that the full
\* name denotes, or nothing (String.Empty) when there is no such file.
GetFileContents(dir, name) ==
    LET opened == FullFileName(Stem(name))
    IN  IF opened \in DOMAIN dir THEN dir[opened] ELSE <<>>
=============================================================================
