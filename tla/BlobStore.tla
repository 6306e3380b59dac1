----------------------------- MODULE BlobStore -----------------------------
(***************************************************************************)
(* What file.h of the third assignment promises whoever opens a BlobFile:  *)
(* a file is a sequence of pages that only grows, a page read is the page  *)
(* last written, whoever has the file open sees the same, and what cannot  *)
(* be done is refused with the exception that says why.                    *)
(***************************************************************************)
EXTENDS Integers, Sequences

CONSTANTS
    Names,      \* the names of files
    Data,       \* what a page may contain
    Blank,      \* the content of a newly allocated page
    NoFile,     \* stands for "there is no such file"
    Nothing,    \* no page was returned
    PageIds     \* the numbers a page may be asked for by

VARIABLES
    files,      \* name -> the contents of its pages, or NoFile
    openers,    \* name -> how many have the file open
    got,        \* the page returned by the last operation
    answer      \* the exception it was refused with, or "none"

storeVars == <<files, openers, got, answer>>

Has(n, p) == p \in 1 .. Len(files[n])

Init ==
    /\ files = [n \in Names |-> NoFile]
    /\ openers = [n \in Names |-> 0]
    /\ got = Nothing
    /\ answer = "none"

Return(result) == got' = result /\ answer' = "none"

(* The file exists and is open from now on. *)
Create(n) ==
    /\ files[n] = NoFile
    /\ files' = [files EXCEPT ![n] = <<>>]
    /\ openers' = [openers EXCEPT ![n] = @ + 1]
    /\ Return(Nothing)

Open(n) ==
    /\ files[n] # NoFile
    /\ openers' = [openers EXCEPT ![n] = @ + 1]
    /\ Return(Nothing)
    /\ UNCHANGED files

Close(n) ==
    /\ openers[n] > 0
    /\ openers' = [openers EXCEPT ![n] = @ - 1]
    /\ Return(Nothing)
    /\ UNCHANGED files

(* Who had m open has n open instead. *)
Reassign(m, n) ==
    /\ openers[m] > 0 /\ openers[n] > 0
    /\ openers' = [k \in Names |-> openers[k] + (IF k = n THEN 1 ELSE 0)
                                              - (IF k = m THEN 1 ELSE 0)]
    /\ Return(Nothing)
    /\ UNCHANGED files

Remove(n) ==
    /\ files[n] # NoFile /\ openers[n] = 0
    /\ files' = [files EXCEPT ![n] = NoFile]
    /\ Return(Nothing)
    /\ UNCHANGED openers

Allocate(n) ==
    /\ openers[n] > 0
    /\ files' = [files EXCEPT ![n] = Append(@, Blank)]
    /\ Return([name |-> n, page |-> Len(files[n]) + 1, content |-> Blank])
    /\ UNCHANGED openers

Read(n, p) ==
    /\ openers[n] > 0 /\ Has(n, p)
    /\ Return([name |-> n, page |-> p, content |-> files[n][p]])
    /\ UNCHANGED <<files, openers>>

(* Nothing is checked: a page that the file does not have is not written.  *)
Write(n, p, d) ==
    /\ openers[n] > 0
    /\ files' = IF Has(n, p) THEN [files EXCEPT ![n][p] = d] ELSE files
    /\ Return(Nothing)
    /\ UNCHANGED openers

Refuse(exception) ==
    /\ answer' = exception
    /\ got' = Nothing
    /\ UNCHANGED <<files, openers>>

(* A file is created that there is, one is opened or removed that there is *)
(* not, one is removed that somebody has open, and a page is asked for     *)
(* that the file does not have; no page of a BlobFile can be deleted.      *)
Refused(n) ==
    \/ files[n] # NoFile /\ Refuse("FileExists")
    \/ files[n] = NoFile /\ Refuse("FileNotFound")
    \/ openers[n] > 0 /\ (Refuse("FileOpen") \/ Refuse("InvalidPage"))

Next ==
    \E n \in Names :
        \/ Create(n) \/ Open(n) \/ Close(n) \/ Remove(n) \/ Allocate(n)
        \/ Refused(n)
        \/ \E m \in Names : Reassign(m, n)
        \/ \E p \in PageIds : Read(n, p) \/ \E d \in Data : Write(n, p, d)

Spec == Init /\ [][Next]_storeVars
=============================================================================
