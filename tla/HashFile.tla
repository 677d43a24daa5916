------------------------------ MODULE HashFile ------------------------------
(***************************************************************************)
(* The two programs around the BLAKE3 hasher.  example.c hashes its        *)
(* standard input, read by read; main_blake3_measure.c loads a file and    *)
(* hashes it in one update.  A digest is that of the bytes the hasher was  *)
(* given: that it depends on nothing else is what Blake3Hasher shows.      *)
(***************************************************************************)
EXTENDS FileRead

CONSTANTS HashedFiles,  \* contents of files
          READ_LEN      \* bytes of example.c's buffer (65536)

ASSUME ReadAssumption ==
  /\ READ_LEN \in Nat \ {0}
  /\ \A f \in HashedFiles : f \in Seq({f[i] : i \in DOMAIN f})

VARIABLES hasher,    \* "example" or "measure"
          content,   \* of the input
          taken,     \* how many bytes read or fread has delivered
          given,     \* the bytes given to blake3_hasher_update
          digest,    \* the digest, once there is one
          status     \* "running", "ok" (exit 0), "failed" (1), "killed"

hashVars == <<hasher, content, taken, given, digest, status>>

HashInit ==
  /\ hasher \in {"example", "measure"}
  /\ content \in HashedFiles
  /\ taken = 0 /\ given = <<>> /\ digest = <<>> /\ status = "running"

Runs(name) == hasher = name /\ status = "running"

\* Wrong on purpose: a read that does not fill the buffer is taken for the last.
last_read_short(n) == n < READ_LEN

\* read returned 0: there is nothing more.
last_read(n) == n = 0

\* One turn of the loop: read may deliver less than there is.
Read(n) ==
  LET bytes == SubSeq(content, taken + 1, taken + n)
  IN  /\ Runs("example")
      /\ n = 0 => taken = Len(content)
      /\ taken + n <= Len(content)
      /\ taken' = taken + n
      /\ given' = given \o bytes
      /\ IF last_read(n) THEN digest' = <<given'>> /\ status' = "ok"
         ELSE UNCHANGED <<digest, status>>
      /\ UNCHANGED <<hasher, content>>

ReadError ==
  /\ Runs("example")
  /\ status' = "failed"
  /\ UNCHANGED <<hasher, content, taken, given, digest>>

\* No argument, or no such file.
NoFile ==
  /\ Runs("measure")
  /\ status' = "failed"
  /\ UNCHANGED <<hasher, content, taken, given, digest>>

\* malloc's result is not tested: fread writes through a null pointer, unless
\* there is nothing to write.
NoMemory ==
  /\ Runs("measure")
  /\ Len(content) > 0
  /\ status' = "killed"
  /\ UNCHANGED <<hasher, content, taken, given, digest>>

\* fread delivers n bytes, and the whole buffer is hashed.
Measure(n) ==
  /\ Runs("measure")
  /\ taken' = n
  /\ given' = buffer_after(content, n)
  /\ digest' = <<given'>>
  /\ status' = "ok"
  /\ UNCHANGED <<hasher, content>>

HashNext ==
  \/ \E n \in 0..READ_LEN : Read(n)
  \/ ReadError \/ NoFile \/ NoMemory
  \/ \E n \in 0..Len(content) : Measure(n)

HashSpec == HashInit /\ [][HashNext]_hashVars

-----------------------------------------------------------------------------
\* A digest that comes with exit status 0 is that of the whole input, in however
\* many pieces it arrived (of what main_blake3_measure.c was given, if fread
\* came to the end); a run that failed prints none.
DigestIsOfInput ==
  /\ status = "ok" /\ (hasher = "example" \/ taken = Len(content))
       => digest = <<content>>
  /\ status \in {"failed", "killed"} => digest = <<>>

=============================================================================
