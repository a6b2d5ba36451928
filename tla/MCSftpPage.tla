---- MODULE MCSftpPage ----
EXTENDS SftpPage

(* Names with single blanks and dots inside: what 'ls -la' gives back. *)
MCDirNames == { <<"a">>, <<".", "a", " ", "b">> }
====
