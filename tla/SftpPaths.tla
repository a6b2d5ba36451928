----------------------------- MODULE SftpPaths -----------------------------
(***************************************************************************)
(* The paths of the SFTP page as the strings they are (SFTPPage.ets): a    *)
(* string is a sequence of characters.                                     *)
(***************************************************************************)
EXTENDS Integers, Sequences, SequencesExt

RootPath == <<"/">>

(* The name of a line of 'ls -la': the line is split at its runs of blanks, *)
(* and what follows the eighth column is put together with single ones.     *)
(* The page splits at any white space (/\s+/); a name here has no other.    *)
ParsedName(name) ==
  FlattenSeq([k \in DOMAIN name |->
    IF name[k] # " " \/ (k > 1 /\ name[k - 1] # " ") THEN <<name[k]>> ELSE <<>>])

EndsWithSlash(path) == Last(path) = "/"

Down(path, name) == (IF EndsWithSlash(path) THEN path ELSE Append(path, "/")) \o name

(* split('/'), drop the last part, join: cut at the last slash. *)
LastSlash(path) ==
  LET slashes == {k \in DOMAIN path : path[k] = "/"}
  IN CHOOSE k \in slashes : \A j \in slashes : j <= k

Up_bare(path) ==
  LET whole == IF EndsWithSlash(path) THEN Front(path) ELSE path
  IN SubSeq(whole, 1, LastSlash(whole) - 1)

Up(path) ==
  LET whole == IF EndsWithSlash(path) THEN Front(path) ELSE path
      parent == SubSeq(whole, 1, LastSlash(whole) - 1)
  IN IF parent = <<>> THEN RootPath ELSE parent

=============================================================================
