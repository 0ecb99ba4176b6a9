---------------------------- MODULE RouteJournal ----------------------------
(***************************************************************************)
(* The one-shot child of the route catalog and the directory it works on:  *)
(* recoverRouteCatalogTransactions, then executeDurableRouteCatalogMutation *)
(* (routeCatalogDurableTransaction.ts) as executeRouteCatalogTransaction    *)
(* (routeCatalogTransaction.ts) calls them.                                *)
(*                                                                         *)
(* A mutation merges its operation id into the content of every config     *)
(* file, so a content is the set of operation ids merged into it; a file   *)
(* that writeFileSync was interrupted in is Torn.  Journals, receipts and  *)
(* restored files are replaced atomically (atomicWriteFileSync).           *)
(***************************************************************************)
EXTENDS Naturals, Sequences, FiniteSets

CONSTANTS LastFile,   \* the config files are 1..LastFile, in the order they are written
          Ids,        \* operation ids
          Digests,    \* digests of an operation's payload
          Entries,    \* numbers of the entries the lifecycle accepts
          None,
          Torn

Files == 1..LastFile
Catalogs == [Files -> (SUBSET Ids) \cup {Torn}]
Backups == [digest : Digests, backup : Catalogs]
Kinds == {"mutate", "capture", "resolve"}
Journals == Backups \cup {None}
Requests == [kind : Kinds, id : Ids, digest : Digests,
             expect : Catalogs \cup {None}]
Tokens == Entries \X Nat
Successes == {"ok", "committed", "not_committed"}
Answers == Successes \cup {"conflict", "idempotency", "failed"}
Children == [tok : Tokens, pc : {"recover", "check", "journal", "mutate",
                                 "rollback", "clean", "done"},
             base : Catalogs \cup {None}, saved : Catalogs \cup {None},
             ans : Answers \cup {None}, snap : Catalogs \cup {None}]

ASSUME JournalAssumption ==
    /\ LastFile \in Nat \ {0} /\ Entries \subseteq Nat
    /\ \A content \in SUBSET Ids : content # Torn
    /\ None \notin Digests /\ None \notin Entries /\ None \notin Answers
    /\ None \notin Catalogs /\ None \notin Backups

VARIABLES
    file,        \* the config files
    journal,     \* pending/<id>.json: backup and digest of a mutation under way
    receipt,     \* receipts/<id>.json: digest of a committed mutation
    req,         \* what entry e asks its child for
    children,    \* the forked processes, with what they are about to do
    commits      \* history: the entries whose child wrote a receipt, in order

JournalInit ==
    /\ file = [f \in Files |-> {}]
    /\ journal = [i \in Ids |-> None]
    /\ receipt = [i \in Ids |-> None]
    /\ children = {}
    /\ commits = <<>>

-----------------------------------------------------------------------------
NewChild(t) == [tok |-> t, pc |-> "recover", base |-> None, saved |-> None,
                ans |-> None, snap |-> None]
Alive(c) == c.pc # "done"
Running == {c \in children : Alive(c)}
Request(c) == req[c.tok[1]]
Become(c, d) == children' = (children \ {c}) \cup {d}
At(c, pc) == Become(c, [c EXCEPT !.pc = pc])

\* mutant: the answer carries no snapshot
ExitWithoutSnapshot(c, ans) ==
    Become(c, [c EXCEPT !.pc = "done", !.ans = ans, !.base = None, !.saved = None])

\* sendAndExit: the child reports and exits; a success carries what it captured
Exit(c, ans) ==
    Become(c, [c EXCEPT !.pc = "done", !.ans = ans, !.base = None, !.saved = None,
                        !.snap = IF ans \in Successes THEN file ELSE None])

\* the file a loop over the files is at: the first one it has still to write
First(Left(_)) == CHOOSE f \in Files : Left(f) /\ \A g \in 1..(f - 1) : ~Left(g)

Whole == \A f \in Files : file[f] # Torn
Pending == {i \in Ids : journal[i] # None}
Committed(i, d) == receipt[i] = d

IsLeftover(i) == Committed(i, journal[i].digest)

\* mutant: the journal is removed before the files are restored
RestoreForgetting(i, backup) ==
    /\ journal' = [journal EXCEPT ![i] = None]
    /\ file' = [file EXCEPT ![LastFile] = backup[LastFile]]

\* restorePendingJournal, one file at a time, and then the journal goes
Restore(i, backup) ==
    IF file = backup
    THEN journal' = [journal EXCEPT ![i] = None] /\ UNCHANGED file
    ELSE /\ LET f == First(LAMBDA g : file[g] # backup[g])
            IN  file' = [file EXCEPT ![f] = backup[f]]
         /\ UNCHANGED journal

\* recoverRouteCatalogTransactions
Recover(c) ==
    /\ c.pc = "recover"
    /\ \E i \in Pending :
         IF IsLeftover(i)
         THEN journal' = [journal EXCEPT ![i] = None] /\ UNCHANGED file
         ELSE Restore(i, journal[i].backup)
    /\ UNCHANGED <<receipt, req, children, commits>>

RecoverDone(c) ==
    /\ c.pc = "recover" /\ Pending = {}
    /\ At(c, "check")
    /\ UNCHANGED <<file, journal, receipt, req, commits>>

\* mutant: a mutation does not look for the receipt of its operation id
VerdictWithoutReceipt(r) ==
    IF ~Whole THEN "failed"
    ELSE CASE r.kind = "capture" -> "ok"
           [] r.kind = "resolve" ->
                 IF receipt[r.id] # None THEN "committed" ELSE "not_committed"
           [] r.kind = "mutate" -> IF r.expect \in {None, file} THEN None ELSE "conflict"

\* the answer the child can give before it writes anything, or None
Verdict(r) ==
    IF ~Whole THEN "failed"
    ELSE CASE r.kind = "capture" -> "ok"
           [] r.kind = "resolve" ->
                 IF receipt[r.id] # None THEN "committed" ELSE "not_committed"
           [] r.kind = "mutate" /\ receipt[r.id] # None ->
                 IF Committed(r.id, r.digest) THEN "ok" ELSE "idempotency"
           [] r.kind = "mutate" /\ receipt[r.id] = None ->
                 IF r.expect \in {None, file} THEN None ELSE "conflict"

\* readCommittedReceipt, capture, prepare
Check(c) ==
    /\ c.pc = "check"
    /\ LET v == Verdict(Request(c)) IN
         IF v # None THEN Exit(c, v)
         ELSE Become(c, [c EXCEPT !.pc = "journal", !.base = file])
    /\ UNCHANGED <<file, journal, receipt, req, commits>>

\* capturePendingJournal and its file
WriteJournal(c) ==
    /\ c.pc = "journal"
    /\ journal' = [journal EXCEPT ![Request(c).id] =
                        [digest |-> Request(c).digest, backup |-> file]]
    /\ Become(c, [c EXCEPT !.pc = "mutate", !.saved = file])
    /\ UNCHANGED <<file, receipt, req, commits>>

\* writeConfig writes one file after the other; a file is torn while written
Target(c, f) == c.base[f] \cup {Request(c).id}
Mutate(c) ==
    /\ c.pc = "mutate" /\ \E f \in Files : file[f] # Target(c, f)
    /\ LET f == First(LAMBDA g : file[g] # Target(c, g))
       IN  file' = [file EXCEPT ![f] = IF @ = Torn THEN Target(c, f) ELSE Torn]
    /\ UNCHANGED <<journal, receipt, req, children, commits>>

\* the commit point
WriteReceipt(c) ==
    /\ c.pc = "mutate" /\ \A f \in Files : file[f] = Target(c, f)
    /\ receipt' = [receipt EXCEPT ![Request(c).id] = Request(c).digest]
    /\ commits' = Append(commits, c.tok[1])
    /\ At(c, "clean")
    /\ UNCHANGED <<file, journal, req>>

Clean(c) ==
    /\ c.pc = "clean"
    /\ journal' = [journal EXCEPT ![Request(c).id] = None]
    /\ Exit(c, "ok")
    /\ UNCHANGED <<file, receipt, req, commits>>

\* the catch clause before the commit
Rollback(c) ==
    /\ c.pc = "rollback"
    /\ Restore(Request(c).id, c.saved)
    /\ IF file = c.saved
       THEN Exit(c, "failed") ELSE UNCHANGED children
    /\ UNCHANGED <<receipt, req, commits>>

\* any step may throw; only a throw while mutating is rolled back
Throw(c) ==
    /\ Alive(c)
    /\ IF c.pc = "mutate" THEN At(c, "rollback") ELSE Exit(c, "failed")
    /\ UNCHANGED <<file, journal, receipt, req, commits>>

ChildStep(c) ==
    \/ Recover(c) \/ RecoverDone(c) \/ Check(c) \/ WriteJournal(c) \/ Mutate(c)
    \/ WriteReceipt(c) \/ Clean(c) \/ Rollback(c) \/ Throw(c)

\* what recovery makes of the directory as it is: the catalog that counts
Durable ==
    LET open == {i \in Pending : ~IsLeftover(i)}
    IN  IF open = {} THEN file ELSE journal[CHOOSE i \in open : TRUE].backup
=============================================================================
