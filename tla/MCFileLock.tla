----------------------------- MODULE MCFileLock -----------------------------
(* Calls of every kind on one file, one per letter.                          *)
EXTENDS FileLock

CONSTANTS u1, u2, a1, r1, p1

Of == [c \in {u1, u2, a1, r1, p1} |->
         IF c \in {u1, u2} THEN "update" ELSE IF c = a1 THEN "append"
         ELSE IF c = r1 THEN "read" ELSE "peek"]

AllCalls == DOMAIN Of
==============================================================================
