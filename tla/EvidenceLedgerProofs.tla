------------------------- MODULE EvidenceLedgerProofs -------------------------
(***************************************************************************)
(* The ledger rebuilds what the tools acted on, names no missing artifact, *)
(* keeps nothing outdated active and implements EvidencePromise: for any   *)
(* contents, reproductions, kinds, crashes and failing appends, as long as *)
(* a failing append leaves no part of its line behind.                     *)
(***************************************************************************)
EXTENDS EvidenceLedger, SequenceTheorems, WellFoundedInduction, TLAPS

(* A bounded set of positions has a last one, by the order of the naturals.*)
LEMMA LastPosition ==
  ASSUME NEW n \in Nat, NEW S, S \subseteq 1 .. n, S # {}
  PROVE  Max(S) \in S /\ \A k \in S : k <= Max(S)
  <1> DEFINE T == {d \in Nat : n - d \in S}
  <1>1. T \subseteq Nat /\ T # {}
    <2>1. PICK k \in S : TRUE
      OBVIOUS
    <2>2. n - k \in Nat /\ n - (n - k) = k
      BY <2>1
    <2> QED
      BY <2>1, <2>2
  <1>2. PICK x \in T : \A y \in T : ~ (<<y, x>> \in OpToRel(<, Nat))
    <2> HIDE DEF T
    <2> QED
      BY <1>1, WFMin, NatLessThanWellFounded, Zenon
  <1>3. ASSUME NEW y \in T, y < x
        PROVE  FALSE
    <2>1. <<y, x>> \in Nat \X Nat /\ <<y, x>>[1] = y /\ <<y, x>>[2] = x
      BY <1>1, <1>2, <1>3
    <2>2. <<y, x>>[1] < <<y, x>>[2]
      BY <2>1, <1>3
    <2>3. <<y, x>> \in OpToRel(<, Nat)
      BY <2>1, <2>2, Zenon DEF OpToRel
    <2> QED
      BY <2>3, <1>2, <1>3, Zenon
  <1>4. ASSUME NEW k \in S
        PROVE  n - x >= k
    <2>1. k \in Int /\ n - k \in Nat /\ n - (n - k) = k /\ x \in Nat
      BY <1>4, <1>1
    <2>2. n - k \in T
      BY <2>1, <1>4
    <2>3. ~ (n - k < x)
      BY <2>2, <1>3
    <2> QED
      BY <2>1, <2>3
  <1>5. n - x \in S
    BY <1>1
  <1>6. Max(S) \in S /\ \A m \in S : Max(S) >= m
    BY <1>4, <1>5, Zenon DEF Max
  <1> QED
    BY <1>6

(* The last position is the greatest.                                      *)
LEMMA LastIs ==
  ASSUME NEW S, S \subseteq Int, NEW n \in S, \A k \in S : k <= n
  PROVE  Max(S) = n
  <1>1. \A m \in S : n >= m
    OBVIOUS
  <1>2. Max(S) \in S /\ \A m \in S : Max(S) >= m
    BY <1>1, Zenon DEF Max
  <1>3. Max(S) >= n /\ n >= Max(S) /\ Max(S) \in Int /\ n \in Int
    BY <1>1, <1>2
  <1> QED
    BY <1>3

-----------------------------------------------------------------------------
(* The file and what a replay of it finds.                                 *)

Piece == [id : Ids, status : {"active", "stale", "superseded"},
          end : {"whole", "half"}]

(* The lines of one record.                                                *)
Lines(f, i) == {k \in 1 .. Len(f) : f[k].id = i /\ f[k].end = "whole"}

LEMMA ReplayAt ==
  ASSUME NEW f, NEW i \in Ids
  PROVE  Replay(f)[i] =
           IF Lines(f, i) = {} THEN "none" ELSE f[Max(Lines(f, i))].status
  BY DEF Replay, Lines

LEMMA ReplayIsFunction ==
  ASSUME NEW f
  PROVE  Replay(f) = [i \in Ids |-> Replay(f)[i]]
  BY DEF Replay

LEMMA LastLine ==
  ASSUME NEW f \in Seq(Piece), NEW i
  PROVE  /\ Lines(f, i) \subseteq 1 .. Len(f) /\ Len(f) \in Nat
         /\ Lines(f, i) # {} => Max(Lines(f, i)) \in Lines(f, i)
  <1>1. Lines(f, i) \subseteq 1 .. Len(f) /\ Len(f) \in Nat
    BY DEF Lines
  <1> QED
    BY <1>1, LastPosition

(* Two replays that agree on every record are the same.                    *)
LEMMA ReplayEqual ==
  ASSUME NEW f, NEW g, \A i \in Ids : Replay(f)[i] = Replay(g)[i]
  PROVE  Replay(f) = Replay(g)
  <1>1. [i \in Ids |-> Replay(f)[i]] = [i \in Ids |-> Replay(g)[i]]
    OBVIOUS
  <1> QED
    BY <1>1, ReplayIsFunction

(* A half line at the end is no record.                                    *)
LEMMA PrefixReplay ==
  ASSUME NEW f \in Seq(Piece), NEW n \in 0 .. Len(f),
         \A k \in n + 1 .. Len(f) : f[k].end = "half"
  PROVE  /\ SubSeq(f, 1, n) \in Seq(Piece) /\ Len(SubSeq(f, 1, n)) = n
         /\ \A k \in 1 .. n : SubSeq(f, 1, n)[k] = f[k]
         /\ Replay(SubSeq(f, 1, n)) = Replay(f)
  <1> DEFINE g == SubSeq(f, 1, n)
  <1>1. /\ g \in Seq(Piece) /\ Len(g) = n
        /\ \A k \in 1 .. n : g[k] = f[k]
    OBVIOUS
  <1>2. ASSUME NEW i \in Ids PROVE Replay(g)[i] = Replay(f)[i]
    <2> HIDE DEF g
    <2>1. Lines(g, i) = Lines(f, i)
      BY <1>1 DEF Lines
    <2>2. CASE Lines(f, i) = {}
      BY <2>1, <2>2, ReplayAt
    <2>3. CASE Lines(f, i) # {}
      <3>1. Max(Lines(g, i)) \in Lines(g, i)
        BY <1>1, <2>1, <2>3, LastLine
      <3>2. g[Max(Lines(g, i))] = f[Max(Lines(g, i))]
        BY <1>1, <3>1 DEF Lines
      <3> QED
        BY <2>1, <2>3, <3>2, ReplayAt
    <2> QED
      BY <2>2, <2>3
  <1> QED
    BY <1>1, <1>2, ReplayEqual

LEMMA AppendReplay ==
  ASSUME NEW f \in Seq(Piece), NEW p \in Piece, p.end = "half"
  PROVE  Replay(Append(f, p)) = Replay(f)
  <1>1. /\ Append(f, p) \in Seq(Piece) /\ Len(Append(f, p)) = Len(f) + 1
        /\ Append(f, p)[Len(f) + 1] = p
        /\ SubSeq(Append(f, p), 1, Len(f)) = f
    OBVIOUS
  <1>2. Len(f) \in 0 .. Len(Append(f, p))
    BY <1>1
  <1>3. \A k \in Len(f) + 1 .. Len(Append(f, p)) : Append(f, p)[k].end = "half"
    <2>1. \A k \in Len(f) + 1 .. Len(f) + 1 : k = Len(f) + 1
      OBVIOUS
    <2> QED
      BY <1>1, <2>1
  <1>4. Replay(SubSeq(Append(f, p), 1, Len(f))) = Replay(Append(f, p))
    BY <1>1, <1>2, <1>3, PrefixReplay
  <1> QED
    BY <1>1, <1>4

(* The line that is completed is the record from now on.                   *)
LEMMA WholeReplay ==
  ASSUME NEW f \in Seq(Piece), f # <<>>,
         NEW g, g = [f EXCEPT ![Len(f)].end = "whole"]
  PROVE  Replay(g) = [Replay(f) EXCEPT ![Last(f).id] = Last(f).status]
  <1> DEFINE n == Len(f)
             h == [Replay(f) EXCEPT ![Last(f).id] = Last(f).status]
  <1>a. n \in Nat \ {0} /\ n \in 1 .. Len(f) /\ Last(f) = f[n]
    BY DEF Last
  <1>b. f[n] \in Piece
    BY <1>a
  <1>c. /\ Len(g) = n
        /\ g[n] = [f[n] EXCEPT !.end = "whole"]
        /\ \A k \in 1 .. n : k # n => g[k] = f[k]
    BY <1>a
  <1>d. g \in Seq(Piece)
    BY <1>a, <1>b, ExceptSeq DEF Piece
  <1>1. /\ n \in Nat \ {0} /\ n \in 1 .. n /\ Len(g) = n /\ Len(f) = n
        /\ Last(f) = f[n] /\ f[n].id \in Ids
        /\ g[n].id = f[n].id /\ g[n].status = f[n].status /\ g[n].end = "whole"
        /\ \A k \in 1 .. n : k # n => g[k] = f[k]
    BY <1>a, <1>b, <1>c DEF Piece
  <1>2. \A i \in Ids : h[i] = IF i = f[n].id THEN f[n].status ELSE Replay(f)[i]
    BY <1>1, ReplayIsFunction
  <1> HIDE DEF h
  <1>3. ASSUME NEW i \in Ids PROVE Replay(g)[i] = h[i]
    <2> HIDE DEF n
    <2>1. CASE i = f[n].id
      <3>1. Lines(g, i) \subseteq 1 .. n /\ n \in Lines(g, i)
        BY <1>1, <2>1 DEF Lines
      <3>2. Max(Lines(g, i)) = n
        <4>1. \A k \in 1 .. n : k \in Int /\ k <= n
          BY <1>1
        <4>2. Lines(g, i) \subseteq Int /\ \A k \in Lines(g, i) : k <= n
          BY <3>1, <4>1
        <4> QED
          BY <3>1, <4>2, LastIs
      <3>3. Replay(g)[i] = g[n].status
        BY <3>1, <3>2, ReplayAt
      <3> QED
        BY <1>1, <1>2, <2>1, <3>3
    <2>2. CASE i # f[n].id
      <3>1. Lines(g, i) = Lines(f, i) /\ n \notin Lines(g, i)
        BY <1>1, <2>2 DEF Lines, n
      <3>2. CASE Lines(f, i) = {}
        BY <1>2, <2>2, <3>1, <3>2, ReplayAt
      <3>3. CASE Lines(f, i) # {}
        <4>1. Max(Lines(g, i)) \in Lines(g, i)
          BY <1>d, <3>1, <3>3, LastLine
        <4>2. g[Max(Lines(g, i))] = f[Max(Lines(g, i))]
          BY <1>1, <3>1, <4>1 DEF Lines
        <4>3. Replay(g)[i] = g[Max(Lines(g, i))].status
          BY <3>1, <3>3, ReplayAt
        <4>4. Replay(f)[i] = f[Max(Lines(f, i))].status
          BY <3>3, ReplayAt
        <4> QED
          BY <1>2, <2>2, <3>1, <4>2, <4>3, <4>4
      <3> QED
        BY <3>2, <3>3
    <2> QED
      BY <2>1, <2>2
  <1>4. h = [i \in Ids |-> h[i]]
    BY ReplayIsFunction DEF h
  <1>5. [i \in Ids |-> Replay(g)[i]] = [i \in Ids |-> h[i]]
    BY <1>3
  <1> QED
    BY <1>4, <1>5, ReplayIsFunction DEF h

(* Only a last half line is cut off.                                       *)
LEMMA RepairedFile ==
  ASSUME NEW f \in Seq(Piece),
         \A k \in 1 .. Len(f) : f[k].end = "half" => k = Len(f)
  PROVE  /\ Repaired(f) \in Seq(Piece) /\ Len(Repaired(f)) <= Len(f)
         /\ \A k \in 1 .. Len(Repaired(f)) :
               Repaired(f)[k] = f[k] /\ f[k].end = "whole"
         /\ Replay(Repaired(f)) = Replay(f)
         /\ (\A k \in 1 .. Len(f) : f[k].end = "whole") => Repaired(f) = f
  <1> DEFINE intact == {n \in 0 .. Len(f) : \A k \in 1 .. n : f[k].end = "whole"}
  <1>0. \A k \in 1 .. Len(f) : f[k] \in Piece
    OBVIOUS
  <1>1. PICK n \in 0 .. Len(f) :
           /\ \A k \in 1 .. n : f[k].end = "whole"
           /\ \A k \in n + 1 .. Len(f) : f[k].end = "half"
           /\ (\A k \in 1 .. Len(f) : f[k].end = "whole") => n = Len(f)
    <2>1. CASE f # <<>> /\ f[Len(f)].end = "half"
      <3>1. Len(f) \in Nat /\ Len(f) # 0
        BY <2>1
      <3>2. \A k \in 1 .. Len(f) - 1 : f[k].end = "whole"
        <4> SUFFICES ASSUME NEW k \in 1 .. Len(f) - 1 PROVE f[k].end = "whole"
          OBVIOUS
        <4>1. k \in 1 .. Len(f) /\ k # Len(f)
          BY <3>1
        <4> QED
          BY <1>0, <4>1 DEF Piece
      <3>3. Len(f) - 1 \in 0 .. Len(f) /\ Len(f) \in 1 .. Len(f)
            /\ \A k \in (Len(f) - 1) + 1 .. Len(f) : k = Len(f)
        BY <3>1
      <3> QED
        BY <2>1, <3>2, <3>3
    <2>2. CASE f = <<>> \/ f[Len(f)].end # "half"
      <3>1. \A k \in 1 .. Len(f) : f[k].end = "whole"
        BY <1>0, <2>2 DEF Piece
      <3> QED
        BY <3>1
    <2> QED
      BY <2>1, <2>2
  <1>2. intact \subseteq Int /\ n \in intact
    BY <1>1
  <1>3. \A m \in intact : m <= n
    <2> SUFFICES ASSUME NEW m \in intact, m > n PROVE FALSE
      BY <1>1
    <2>1. n + 1 \in 1 .. m /\ n + 1 \in n + 1 .. Len(f)
      OBVIOUS
    <2> QED
      BY <1>1, <2>1
  <1>4. Repaired(f) = SubSeq(f, 1, n)
    <2>1. Max(intact) = n
      <3> HIDE DEF intact
      <3> QED
        BY <1>2, <1>3, LastIs
    <2> QED
      BY <2>1 DEF Repaired
  <1>5. SubSeq(f, 1, Len(f)) = f
    OBVIOUS
  <1>6. /\ SubSeq(f, 1, n) \in Seq(Piece) /\ Len(SubSeq(f, 1, n)) = n
        /\ \A k \in 1 .. n : SubSeq(f, 1, n)[k] = f[k]
        /\ Replay(SubSeq(f, 1, n)) = Replay(f)
    BY <1>1, PrefixReplay
  <1>7. n <= Len(f)
    OBVIOUS
  <1> QED
    BY <1>1, <1>4, <1>5, <1>6, <1>7

-----------------------------------------------------------------------------
(* The inductive invariant.                                                *)

\* What a restart would rebuild.
Status == Replay(file)

Change == [id : Ids, status : {"active", "stale", "superseded"}]

\* What the mutation in progress has still to bring into the ledger.
Unfinished == IF appending
              THEN {[id |-> Last(file).id, status |-> Last(file).status]}
              ELSE {}
Pending == todo \cup Unfinished

FileInv ==
    /\ file \in Seq(Piece)
    /\ \A k \in 1 .. Len(file) : file[k].end = "half" => k = Len(file)
    /\ appending => up /\ file # <<>> /\ Last(file).end = "half"
    /\ up /\ ~appending => \A k \in 1 .. Len(file) : file[k].end = "whole"
    /\ up => mem = Status
    /\ ~up => todo = {} /\ job = <<>>

ArtifactInv ==
    /\ \A k \in 1 .. Len(file) :
          HasArtifact(file[k].id) => file[k].id \in artifacts
    /\ \A c \in todo : HasArtifact(c.id) => c.id \in artifacts

Present(i) == i.kind \in VersionKinds => i.at = worktree

PendingInv ==
    /\ todo \subseteq Change
    /\ todo \cap Unfinished = {}
    /\ \A c, d \in Pending : c.id = d.id => c = d
    /\ \A c \in Pending :
          IF c.status = "active"
          THEN /\ Pending = {c}
               /\ Present(c.id)
               /\ c.id \in Reproductions =>
                     \A r \in Reproductions : Status[r] # "active"
          ELSE Status[c.id] = "active"

SyncedInv == synced => \A i \in Ids : Status[i] = "active" => Present(i)

\* A mutation that retires every active record of a set is in progress.
Retires(ids, as) ==
    /\ \A c \in Pending : c.status # "active"
    /\ \A i \in ids : Status[i] = "active" => [id |-> i, status |-> as] \in Pending

Recordable(i) == i \in Ids \ Reproductions /\ Present(i)
Changes == IF "change" \in Kinds
           THEN <<Step("capture", [kind |-> "change", at |-> worktree])>>
           ELSE <<>>

JobInv ==
    \/ job = <<>>
    \/ \E i \in Ids :
          /\ Recordable(i)
          /\ \/ HasArtifact(i) /\ job = <<Step("artifact", i), Step("capture", i)>>
             \/ (HasArtifact(i) => i \in artifacts) /\ job = <<Step("capture", i)>>
    \/ \E i \in Reproductions :
          \/ job = <<Step("artifact", i), Step("supersedeReproductions", Ledger),
                     Step("capture", i)>>
          \/ i \in artifacts /\ job = <<Step("supersedeReproductions", Ledger),
                                        Step("capture", i)>>
          \/ /\ i \in artifacts /\ job = <<Step("capture", i)>>
             /\ Retires(Reproductions, "superseded")
    \/ job = <<Step("supersedeReproductions", Ledger)>>
    \/ \E v \in Versions : v # worktree /\
          job = <<Step("write", Content(v))>> \o Invalidation(v)
    \/ job = Invalidation(worktree)
    \/ /\ job = Tail(Invalidation(worktree))
       /\ Retires({i \in Ids : Outdated(i)}, "stale")
    \/ job = <<Step("supersedeGoal", Ledger), Step("goal", Ledger)>>
    \/ job = <<Step("goal", Ledger)>> /\ Retires(Ids, "superseded")

LedgerInv == FileInv /\ ArtifactInv /\ PendingInv /\ SyncedInv /\ JobInv

LEMMA ActiveIsInFile ==
  ASSUME NEW i \in Ids, Status[i] = "active"
  PROVE  \E k \in 1 .. Len(file) : file[k].id = i
  <1>1. Lines(file, i) # {}
    BY ReplayAt DEF Status
  <1> QED
    BY <1>1 DEF Lines

-----------------------------------------------------------------------------
(* What each action does to the file, the replay and the pending changes.  *)

\* The change in progress reaches the file as a whole line.
Lands(c) ==
    /\ c \in Pending
    /\ Status' = [Status EXCEPT ![c.id] = c.status]

LEMMA UnfinishedIs ==
  ASSUME FileInv
  PROVE  /\ ~appending => Unfinished = {} /\ Pending = todo
         /\ appending =>
               /\ up /\ file # <<>> /\ file \in Seq(Piece)
               /\ Len(file) \in 1 .. Len(file) /\ file[Len(file)] \in Piece
               /\ Last(file) = file[Len(file)] /\ Last(file).end = "half"
               /\ Last(file).id \in Ids
               /\ Unfinished = {[id |-> Last(file).id, status |-> Last(file).status]}
  <1>1. CASE ~appending
    BY <1>1 DEF Unfinished, Pending
  <1>2. CASE appending
    <2>1. file # <<>> /\ file \in Seq(Piece) /\ up /\ Last(file).end = "half"
      BY <1>2 DEF FileInv
    <2>2. Len(file) \in 1 .. Len(file) /\ file[Len(file)] \in Piece
      BY <2>1
    <2> QED
      BY <1>2, <2>1, <2>2 DEF Unfinished, Last, Piece
  <1> QED
    BY <1>1, <1>2

LEMMA BeginsFile ==
  ASSUME FileInv, todo \subseteq Change, AppendBegins
  PROVE  /\ FileInv' /\ Status' = Status
         /\ \E c \in todo :
               /\ Unfinished' = {c} /\ todo' = todo \ {c}
               /\ file' = Append(file, [id |-> c.id, status |-> c.status,
                                        end |-> "half"])
               /\ [id |-> c.id, status |-> c.status, end |-> "half"] \in Piece
  <1>1. PICK c \in todo :
           /\ file' = Append(file, [id |-> c.id, status |-> c.status,
                                    end |-> "half"])
           /\ todo' = todo \ {c}
    BY DEF AppendBegins
  <1> DEFINE p == [id |-> c.id, status |-> c.status, end |-> "half"]
  <1>2. /\ p \in Piece /\ p.end = "half" /\ c \in Change
        /\ [id |-> p.id, status |-> p.status] = c
    BY DEF Change, Piece
  <1>3. file' = Append(file, p)
    BY <1>1
  <1> HIDE DEF p
  <1>4. /\ file \in Seq(Piece) /\ file' \in Seq(Piece)
        /\ Len(file') = Len(file) + 1 /\ file'[Len(file')] = p
        /\ \A k \in 1 .. Len(file) : file'[k] = file[k]
    BY <1>2, <1>3 DEF FileInv
  <1>5. /\ up /\ ~appending /\ up' = up /\ appending' = TRUE
        /\ UNCHANGED <<mem, job>>
        /\ \A k \in 1 .. Len(file) : file[k].end = "whole"
        /\ mem = Status
    BY DEF AppendBegins, FileInv
  <1>6. Status' = Status
    BY <1>2, <1>3, <1>4, AppendReplay DEF Status
  <1>7. \A k \in 1 .. Len(file') : file'[k].end = "half" => k = Len(file')
    BY <1>4, <1>5
  <1>8. Unfinished' = {c} /\ Last(file)' = p /\ file' # <<>>
    BY <1>2, <1>4, <1>5 DEF Unfinished, Last
  <1>9. FileInv'
    BY <1>2, <1>4, <1>5, <1>6, <1>7, <1>8 DEF FileInv
  <1> QED
    BY <1>1, <1>2, <1>6, <1>8, <1>9 DEF p

\* The last line of the file is completed.
LEMMA LineCompleted ==
  ASSUME FileInv, appending, file' = [file EXCEPT ![Len(file)].end = "whole"]
  PROVE  /\ file' \in Seq(Piece) /\ Len(file') = Len(file)
         /\ \A k \in 1 .. Len(file') : /\ file'[k].end = "whole"
                                       /\ file'[k].id = file[k].id
         /\ Status' = [Status EXCEPT ![Last(file).id] = Last(file).status]
  <1>1. /\ file # <<>> /\ file \in Seq(Piece) /\ Len(file) \in 1 .. Len(file)
        /\ file[Len(file)] \in Piece
    BY UnfinishedIs
  <1>2. file' \in Seq(Piece)
    BY <1>1, ExceptSeq DEF Piece
  <1>3. /\ Len(file') = Len(file)
        /\ file'[Len(file)].end = "whole" /\ file'[Len(file)].id = file[Len(file)].id
        /\ \A k \in 1 .. Len(file) : k # Len(file) => file'[k] = file[k]
    BY <1>1 DEF Piece
  <1>a. \A k \in 1 .. Len(file) : file[k] \in Piece
    BY <1>1
  <1>4. \A k \in 1 .. Len(file) : k # Len(file) => file[k].end = "whole"
    BY <1>a DEF FileInv, Piece
  <1>5. Status' = [Status EXCEPT ![Last(file).id] = Last(file).status]
    BY <1>1, WholeReplay DEF Status
  <1> QED
    BY <1>2, <1>3, <1>4, <1>5

\* The last line of the file is lost.
LEMMA LineLost ==
  ASSUME FileInv, appending, file' = Front(file)
  PROVE  /\ file' \in Seq(Piece) /\ Len(file') <= Len(file)
         /\ \A k \in 1 .. Len(file') : /\ file'[k] = file[k]
                                       /\ file'[k].end = "whole"
         /\ Status' = Status
  <1> DEFINE n == Len(file) - 1
  <1>1. /\ file # <<>> /\ file \in Seq(Piece) /\ Len(file) \in 1 .. Len(file)
        /\ file[Len(file)].end = "half"
    BY UnfinishedIs
  <1>2. /\ n \in 0 .. Len(file) /\ n <= Len(file)
        /\ \A k \in n + 1 .. Len(file) : k = Len(file)
        /\ \A k \in 1 .. n : k \in 1 .. Len(file) /\ k # Len(file)
    BY <1>1
  <1>3. file' = SubSeq(file, 1, n)
    BY DEF Front
  <1>4. \A k \in n + 1 .. Len(file) : file[k].end = "half"
    BY <1>1, <1>2
  <1>5. \A k \in 1 .. Len(file) : file[k] \in Piece
    BY <1>1
  <1>6. \A k \in 1 .. n : file[k].end = "whole"
    BY <1>2, <1>5 DEF FileInv, Piece
  <1> HIDE DEF n
  <1>7. /\ file' \in Seq(Piece) /\ Len(file') = n
        /\ \A k \in 1 .. n : file'[k] = file[k]
        /\ Status' = Status
    BY <1>1, <1>2, <1>3, <1>4, PrefixReplay DEF Status
  <1> QED
    BY <1>2, <1>6, <1>7

LEMMA EndsFile ==
  ASSUME FileInv, AppendEnds
  PROVE  /\ FileInv'
         /\ \E c : Unfinished = {c} /\ Lands(c)
         /\ Pending' = todo /\ todo' = todo /\ Unfinished' = {} /\ job' = job
         /\ Len(file') = Len(file)
         /\ \A k \in 1 .. Len(file') : file'[k].id = file[k].id
  <1>1. /\ up /\ appending /\ up' = up /\ ~appending' /\ UNCHANGED <<job, todo>>
        /\ file' = [file EXCEPT ![Len(file)].end = "whole"]
        /\ mem' = [mem EXCEPT ![Last(file).id] = Last(file).status]
    BY DEF AppendEnds
  <1>2. /\ file' \in Seq(Piece) /\ Len(file') = Len(file)
        /\ \A k \in 1 .. Len(file') : /\ file'[k].end = "whole"
                                      /\ file'[k].id = file[k].id
        /\ Status' = [Status EXCEPT ![Last(file).id] = Last(file).status]
    BY <1>1, LineCompleted
  <1>3. mem' = Status'
    BY <1>1, <1>2 DEF FileInv
  <1>4. FileInv'
    BY <1>1, <1>2, <1>3 DEF FileInv
  <1>5. Unfinished' = {} /\ Pending' = todo
    BY <1>1 DEF Unfinished, Pending
  <1>6. \E c : Unfinished = {c} /\ Lands(c)
    <2>1. Unfinished = {[id |-> Last(file).id, status |-> Last(file).status]}
      BY <1>1 DEF Unfinished
    <2>2. Lands([id |-> Last(file).id, status |-> Last(file).status])
      BY <1>2, <2>1 DEF Lands, Pending
    <2> QED
      BY <2>1, <2>2
  <1> QED
    BY <1>1, <1>2, <1>4, <1>5, <1>6

LEMMA FailsFile ==
  ASSUME "partial" \notin Faults, FileInv, AppendFails
  PROVE  /\ FileInv' /\ Status' = Status
         /\ Pending' = {} /\ todo' = {} /\ job' = <<>>
         /\ Len(file') <= Len(file)
         /\ \A k \in 1 .. Len(file') : file'[k] = file[k]
  <1>1. /\ up /\ appending /\ up' = up /\ ~appending' /\ mem' = mem
        /\ file' = Front(file) /\ todo' = {} /\ job' = <<>>
    BY DEF AppendFails
  <1>2. /\ file' \in Seq(Piece) /\ Len(file') <= Len(file)
        /\ \A k \in 1 .. Len(file') : file'[k] = file[k] /\ file'[k].end = "whole"
        /\ Status' = Status
    BY <1>1, LineLost
  <1>3. FileInv'
    BY <1>1, <1>2 DEF FileInv
  <1>4. Pending' = {}
    BY <1>1 DEF Pending, Unfinished
  <1> QED
    BY <1>1, <1>2, <1>3, <1>4

LEMMA CrashFile ==
  ASSUME FileInv, Crash
  PROVE  /\ FileInv'
         /\ Status' = Status \/ \E c : Unfinished = {c} /\ Lands(c)
         /\ Pending' = {} /\ todo' = {} /\ job' = <<>>
         /\ Len(file') <= Len(file)
         /\ \A k \in 1 .. Len(file') : file'[k].id = file[k].id
  <1>1. ~up' /\ ~appending' /\ todo' = {} /\ job' = <<>>
    BY DEF Crash
  <1>2. Pending' = {}
    BY <1>1 DEF Pending, Unfinished
  <1>3. CASE UNCHANGED file
    <2>1. Status' = Status
      BY <1>3 DEF Status
    <2> QED
      BY <1>1, <1>2, <1>3, <2>1 DEF FileInv
  <1>4. CASE appending /\ file' = Front(file)
    <2>1. /\ file' \in Seq(Piece) /\ Len(file') <= Len(file)
          /\ \A k \in 1 .. Len(file') : file'[k] = file[k] /\ file'[k].end = "whole"
          /\ Status' = Status
      BY <1>4, LineLost
    <2> QED
      BY <1>1, <1>2, <2>1 DEF FileInv
  <1>5. CASE appending /\ file' = [file EXCEPT ![Len(file)].end = "whole"]
    <2>1. /\ file' \in Seq(Piece) /\ Len(file') = Len(file)
          /\ \A k \in 1 .. Len(file') : /\ file'[k].end = "whole"
                                        /\ file'[k].id = file[k].id
          /\ Status' = [Status EXCEPT ![Last(file).id] = Last(file).status]
      BY <1>5, LineCompleted
    <2>2. FileInv'
      BY <1>1, <2>1 DEF FileInv
    <2>3. \E c : Unfinished = {c} /\ Lands(c)
      <3>1. Unfinished = {[id |-> Last(file).id, status |-> Last(file).status]}
        BY <1>5 DEF Unfinished
      <3>2. Lands([id |-> Last(file).id, status |-> Last(file).status])
        BY <2>1, <3>1 DEF Lands, Pending
      <3> QED
        BY <3>1, <3>2
    <2> QED
      BY <1>1, <1>2, <2>1, <2>2, <2>3
  <1> QED
    BY <1>3, <1>4, <1>5 DEF Crash

\* Reading the ledger repairs it, which is no change to a session under way.
LEMMA ReadsFile ==
  ASSUME FileInv, Start \/ ParentReads
  PROVE  /\ FileInv' /\ Status' = Status
         /\ Pending' = Pending /\ Unfinished' = {} /\ todo' = todo
         /\ Len(file') <= Len(file)
         /\ \A k \in 1 .. Len(file') : file'[k] = file[k]
  <1>1. /\ file' = Repaired(file) /\ file \in Seq(Piece)
        /\ \A k \in 1 .. Len(file) : file[k].end = "half" => k = Len(file)
        /\ ~appending /\ appending' = appending /\ todo' = todo
    BY DEF Start, ParentReads, store, FileInv
  <1>2. /\ file' \in Seq(Piece) /\ Len(file') <= Len(file)
        /\ \A k \in 1 .. Len(file') : file'[k] = file[k] /\ file[k].end = "whole"
        /\ Replay(file') = Replay(file)
        /\ (\A k \in 1 .. Len(file) : file[k].end = "whole") => file' = file
    BY <1>1, RepairedFile
  <1>3. Status' = Status
    BY <1>2 DEF Status
  <1>4. Pending' = Pending /\ Unfinished' = {}
    BY <1>1 DEF Pending, Unfinished
  <1>5. CASE Start
    <2>1. mem' = Status' /\ up' /\ ~up
      BY <1>3, <1>5 DEF Start, Status
    <2>2. FileInv'
      BY <1>1, <1>2, <2>1 DEF FileInv
    <2> QED
      BY <1>1, <1>2, <1>3, <1>4, <2>2
  <1>6. CASE ParentReads
    <2>1. UNCHANGED <<mem, up, job, todo, appending>>
      BY <1>6 DEF ParentReads, store
    <2>2. FileInv'
      BY <1>1, <1>2, <1>3, <2>1 DEF FileInv
    <2> QED
      BY <1>1, <1>2, <1>3, <1>4, <2>2
  <1> QED
    BY <1>5, <1>6

\* The steps of the handlers leave the file alone.
LEMMA SameFile ==
  ASSUME FileInv, up, ~appending, UNCHANGED <<file, mem, up, appending>>
  PROVE  /\ FileInv' /\ Status' = Status
         /\ Pending' = todo' /\ Unfinished' = {}
  BY DEF FileInv, Status, Pending, Unfinished

-----------------------------------------------------------------------------
(* The jobs as tuples of steps.                                            *)

LEMMA Extended ==
  ASSUME NEW S, NEW s \in Seq(S), NEW t \in Seq(S), NEW e \in S,
         Len(t) = Len(s) + 1, t[Len(s) + 1] = e,
         \A k \in 1 .. Len(s) : t[k] = s[k]
  PROVE  s \o <<e>> = t
  <1>1. /\ Append(s, e) \in Seq(S) /\ Len(Append(s, e)) = Len(s) + 1
        /\ Append(s, e)[Len(s) + 1] = e
        /\ \A k \in 1 .. Len(s) : Append(s, e)[k] = s[k]
    OBVIOUS
  <1>2. \A k \in 1 .. Len(Append(s, e)) : Append(s, e)[k] = t[k]
    BY <1>1
  <1>3. Append(s, e) = t
    BY <1>1, <1>2, SeqEqual
  <1> QED
    BY <1>3, AppendIsConcat

LEMMA Joined ==
  ASSUME NEW a, NEW b, NEW c
  PROVE  /\ <<>> \o <<a>> = <<a>>
         /\ <<a>> \o <<b>> = <<a, b>>
         /\ <<a, b>> \o <<>> = <<a, b>>
         /\ <<a, b>> \o <<c>> = <<a, b, c>>
         /\ <<a>> \o <<b, c>> = <<a, b, c>>
  <1> DEFINE S == {a, b, c}
  <1>0. a \in S /\ b \in S /\ c \in S
    OBVIOUS
  <1> HIDE DEF S
  <1>1. /\ <<a>> \in Seq(S) /\ <<b>> \in Seq(S) /\ <<c>> \in Seq(S)
        /\ <<a, b>> \in Seq(S) /\ <<b, c>> \in Seq(S)
    BY <1>0
  <1>2. <<>> \o <<a>> = <<a>> /\ <<a, b>> \o <<>> = <<a, b>>
    BY <1>1, ConcatEmptySeq
  <1>3. <<a>> \o <<b>> = <<a, b>>
    <2> DEFINE s == <<a>>
               t == <<a, b>>
    <2>1. /\ s \in Seq(S) /\ t \in Seq(S) /\ b \in S /\ Len(t) = Len(s) + 1
          /\ t[Len(s) + 1] = b /\ \A k \in 1 .. Len(s) : t[k] = s[k]
      BY <1>0
    <2> HIDE DEF s, t
    <2>2. s \o <<b>> = t
      BY <2>1, Extended
    <2> QED
      BY <2>2 DEF s, t
  <1>4. <<b>> \o <<c>> = <<b, c>>
    <2> DEFINE s == <<b>>
               t == <<b, c>>
    <2>1. /\ s \in Seq(S) /\ t \in Seq(S) /\ c \in S /\ Len(t) = Len(s) + 1
          /\ t[Len(s) + 1] = c /\ \A k \in 1 .. Len(s) : t[k] = s[k]
      BY <1>0
    <2> HIDE DEF s, t
    <2>2. s \o <<c>> = t
      BY <2>1, Extended
    <2> QED
      BY <2>2 DEF s, t
  <1>5. <<a, b>> \o <<c>> = <<a, b, c>>
    <2> DEFINE s == <<a, b>>
               t == <<a, b, c>>
    <2>1. /\ s \in Seq(S) /\ t \in Seq(S) /\ c \in S /\ Len(t) = Len(s) + 1
          /\ t[Len(s) + 1] = c /\ \A k \in 1 .. Len(s) : t[k] = s[k]
      BY <1>0
    <2> HIDE DEF s, t
    <2>2. s \o <<c>> = t
      BY <2>1, Extended
    <2> QED
      BY <2>2 DEF s, t
  <1>8. <<a>> \o <<b, c>> = <<a, b, c>>
    <2>1. (<<a>> \o <<b>>) \o <<c>> = <<a>> \o (<<b>> \o <<c>>)
      BY <1>1, ConcatAssociative
    <2> QED
      BY <1>3, <1>4, <1>5, <2>1
  <1> QED
    BY <1>2, <1>3, <1>5, <1>8

LEMMA JoinedTriple ==
  ASSUME NEW a, NEW b, NEW c, NEW d
  PROVE  <<a>> \o <<b, c, d>> = <<a, b, c, d>>
  <1> DEFINE S == {a, b, c, d}
  <1>0. a \in S /\ b \in S /\ c \in S /\ d \in S
    OBVIOUS
  <1> HIDE DEF S
  <1>1. <<a>> \in Seq(S) /\ <<d>> \in Seq(S) /\ <<b, c>> \in Seq(S)
    BY <1>0
  <1>2. <<a>> \o <<b, c>> = <<a, b, c>>
    BY Joined, Zenon
  <1>3. <<b, c>> \o <<d>> = <<b, c, d>>
    BY Joined, Zenon
  <1>4. <<a, b, c>> \o <<d>> = <<a, b, c, d>>
    <2> DEFINE s == <<a, b, c>>
               t == <<a, b, c, d>>
    <2>1. /\ s \in Seq(S) /\ t \in Seq(S) /\ d \in S /\ Len(t) = Len(s) + 1
          /\ t[Len(s) + 1] = d /\ \A k \in 1 .. Len(s) : t[k] = s[k]
      BY <1>0
    <2> HIDE DEF s, t
    <2>2. s \o <<d>> = t
      BY <2>1, Extended
    <2> QED
      BY <2>2 DEF s, t
  <1>5. (<<a>> \o <<b, c>>) \o <<d>> = <<a>> \o (<<b, c>> \o <<d>>)
    BY <1>1, ConcatAssociative
  <1> QED
    BY <1>2, <1>3, <1>4, <1>5

LEMMA HeadTailIs ==
  ASSUME NEW a, NEW b, NEW c, NEW d
  PROVE  /\ Head(<<a>>) = a /\ Tail(<<a>>) = <<>>
         /\ Head(<<a, b>>) = a /\ Tail(<<a, b>>) = <<b>>
         /\ Head(<<a, b, c>>) = a /\ Tail(<<a, b, c>>) = <<b, c>>
         /\ Head(<<a, b, c, d>>) = a /\ Tail(<<a, b, c, d>>) = <<b, c, d>>
  OBVIOUS

LEMMA StepIs ==
  ASSUME NEW name, NEW arg
  PROVE  Step(name, arg).do = name /\ Step(name, arg).arg = arg
  BY DEF Step

LEMMA RecordingIs ==
  ASSUME NEW i
  PROVE  Recording(i) = IF HasArtifact(i)
                        THEN <<Step("artifact", i), Step("capture", i)>>
                        ELSE <<Step("capture", i)>>
  BY Joined DEF Recording

ChangeOf(v) == [kind |-> "change", at |-> v]

LEMMA InvalidationIs ==
  ASSUME NEW v
  PROVE  Invalidation(v) =
           IF "change" \in Kinds
           THEN <<Step("invalidate", Ledger), Step("invalidated", Ledger),
                  Step("capture", ChangeOf(v))>>
           ELSE <<Step("invalidate", Ledger), Step("invalidated", Ledger)>>
  <1>1. ~HasArtifact(ChangeOf(v))
    BY DEF HasArtifact, ChangeOf
  <1>2. Recording(ChangeOf(v)) = <<Step("capture", ChangeOf(v))>>
    BY <1>1, RecordingIs
  <1>3. CASE "change" \in Kinds
    <2>1. Invalidation(v) =
            <<Step("invalidate", Ledger), Step("invalidated", Ledger)>>
               \o <<Step("capture", ChangeOf(v))>>
      BY <1>2, <1>3 DEF Invalidation, ChangeOf
    <2> QED
      BY <1>3, <2>1, Joined
  <1>4. CASE "change" \notin Kinds
    <2>1. Invalidation(v) =
            <<Step("invalidate", Ledger), Step("invalidated", Ledger)>> \o <<>>
      BY <1>4 DEF Invalidation
    <2> QED
      BY <1>4, <2>1, Joined
  <1> QED
    BY <1>3, <1>4

LEMMA ChangeOfIs ==
  ASSUME NEW v \in Versions, "change" \in Kinds
  PROVE  /\ ChangeOf(v) \in Ids \ Reproductions /\ ~HasArtifact(ChangeOf(v))
         /\ ChangeOf(v).at = v
  BY DEF ChangeOf, Ids, Reproductions, HasArtifact, VersionKinds

-----------------------------------------------------------------------------
(* The invariant along the appends, failures, crashes and reads.           *)

LEMMA StatusAfter ==
  ASSUME NEW c, Lands(c), NEW i \in Ids
  PROVE  Status'[i] = IF i = c.id THEN c.status ELSE Status[i]
  <1>1. Status = [j \in Ids |-> Status[j]]
    BY ReplayIsFunction DEF Status
  <1> QED
    BY <1>1 DEF Lands

LEMMA PendingIsChange ==
  ASSUME FileInv, PendingInv
  PROVE  Pending \subseteq Change
  <1>1. CASE appending
    <2>1. /\ Unfinished = {[id |-> Last(file).id, status |-> Last(file).status]}
          /\ Last(file) \in Piece
      BY <1>1, UnfinishedIs
    <2>2. [id |-> Last(file).id, status |-> Last(file).status] \in Change
      BY <2>1 DEF Piece, Change
    <2> QED
      BY <2>1, <2>2 DEF PendingInv, Pending
  <1>2. CASE ~appending
    BY <1>2, UnfinishedIs DEF PendingInv
  <1> QED
    BY <1>1, <1>2

\* The records that are active stay fit for the content when a change lands.
LEMMA LandsSynced ==
  ASSUME FileInv, PendingInv, SyncedInv, NEW c, Lands(c),
         worktree' = worktree, synced' = synced
  PROVE  SyncedInv'
  <1>1. c.status = "active" => Present(c.id)
    BY DEF PendingInv, Lands
  <1> QED
    BY <1>1, StatusAfter DEF SyncedInv, Present

LEMMA LandsPending ==
  ASSUME FileInv, PendingInv, NEW c, Lands(c), Unfinished = {c},
         Pending' = todo, todo' = todo, Unfinished' = {}, worktree' = worktree
  PROVE  PendingInv'
  <1>1. todo \subseteq Change /\ c \notin todo /\ Pending' \subseteq Pending
        /\ c \in Pending
    BY DEF PendingInv, Lands, Pending
  <1>2. \A d \in todo : d.id # c.id /\ d.status # "active" /\ d.id \in Ids
    BY <1>1 DEF PendingInv, Pending, Change
  <1>3. \A d \in todo : Status'[d.id] = "active"
    <2> SUFFICES ASSUME NEW d \in todo PROVE Status'[d.id] = "active"
      OBVIOUS
    <2>1. Status'[d.id] = Status[d.id]
      BY <1>2, StatusAfter
    <2> QED
      BY <1>2, <2>1 DEF PendingInv, Pending
  <1>4. \A d, e \in todo : d.id = e.id => d = e
    BY DEF PendingInv, Pending
  <1> QED
    BY <1>1, <1>2, <1>3, <1>4 DEF PendingInv

LEMMA LandsRetires ==
  ASSUME FileInv, PendingInv, NEW c, Lands(c), Unfinished = {c},
         Pending' = todo, NEW ids, ids \subseteq Ids, NEW as, Retires(ids, as)
  PROVE  Retires(ids, as)'
  <1>1. \A d \in Pending' : d.status # "active"
    BY DEF Retires, Pending
  <1>2. ASSUME NEW i \in ids, Status'[i] = "active"
        PROVE  [id |-> i, status |-> as] \in todo
    <2>1. c.status # "active" /\ c \in Pending
      BY DEF Retires, Lands
    <2>2. i # c.id /\ Status[i] = "active"
      BY <1>2, <2>1, StatusAfter
    <2>3. [id |-> i, status |-> as] \in Pending
      BY <1>2, <2>2 DEF Retires
    <2>4. [id |-> i, status |-> as].id = i
      OBVIOUS
    <2> QED
      BY <2>2, <2>3, <2>4 DEF Pending
  <1> QED
    BY <1>1, <1>2 DEF Retires

\* A job in progress means the same as long as no step of it is taken.
LEMMA SameJob ==
  ASSUME JobInv, job' = job, worktree' = worktree, artifacts' = artifacts,
         \A ids \in SUBSET Ids, as \in {"stale", "superseded"} :
            Retires(ids, as) => Retires(ids, as)'
  PROVE  JobInv'
  <1>1. {i \in Ids : Outdated(i)}' = {i \in Ids : Outdated(i)}
        /\ {i \in Ids : Outdated(i)} \in SUBSET Ids
    BY DEF Outdated
  <1>2. Reproductions \in SUBSET Ids /\ Ids \in SUBSET Ids
    BY DEF Reproductions
  <1>3. \A i : Recordable(i)' <=> Recordable(i)
    BY DEF Recordable, Present
  <1>4. Retires(Reproductions, "superseded") => Retires(Reproductions, "superseded")'
    BY <1>2
  <1>5. Retires(Ids, "superseded") => Retires(Ids, "superseded")'
    BY <1>2
  <1>6. Retires({i \in Ids : Outdated(i)}, "stale")
          => Retires({i \in Ids : Outdated(i)}, "stale")'
    BY <1>1
  <1> QED
    BY <1>3, <1>4, <1>5, <1>6 DEF JobInv

LEMMA BeginsKeeps ==
  ASSUME LedgerInv, AppendBegins
  PROVE  LedgerInv' /\ Status' = Status
  <1>1. PICK c \in todo :
           /\ FileInv' /\ Status' = Status
           /\ Unfinished' = {c} /\ todo' = todo \ {c}
           /\ file' = Append(file, [id |-> c.id, status |-> c.status,
                                    end |-> "half"])
           /\ [id |-> c.id, status |-> c.status, end |-> "half"] \in Piece
    BY BeginsFile DEF LedgerInv, PendingInv
  <1>2. /\ ~appending /\ Unfinished = {} /\ Pending = todo
        /\ UNCHANGED <<job, artifacts, worktree, synced>>
    BY UnfinishedIs DEF AppendBegins, LedgerInv
  <1>3. Pending' = Pending
    BY <1>1, <1>2 DEF Pending
  <1>4. ArtifactInv'
    <2> DEFINE p == [id |-> c.id, status |-> c.status, end |-> "half"]
    <2>1. p.id = c.id /\ p \in Piece /\ file' = Append(file, p)
          /\ file \in Seq(Piece)
      BY <1>1 DEF LedgerInv, FileInv
    <2> HIDE DEF p
    <2>2. /\ \A k \in 1 .. Len(file) : file'[k] = file[k]
          /\ Len(file') = Len(file) + 1 /\ file'[Len(file) + 1] = p
          /\ \A k \in 1 .. Len(file') : k \in 1 .. Len(file) \/ k = Len(file) + 1
      BY <2>1
    <2>3. ASSUME NEW k \in 1 .. Len(file'), HasArtifact(file'[k].id)
          PROVE  file'[k].id \in artifacts
      BY <2>1, <2>2, <2>3 DEF LedgerInv, ArtifactInv
    <2> QED
      BY <1>1, <1>2, <2>3 DEF LedgerInv, ArtifactInv
  <1>5. PendingInv'
    BY <1>1, <1>2, <1>3 DEF LedgerInv, PendingInv, Present
  <1>6. SyncedInv'
    BY <1>1, <1>2 DEF LedgerInv, SyncedInv, Present
  <1>7. JobInv'
    <2>1. \A ids \in SUBSET Ids, as \in {"stale", "superseded"} :
             Retires(ids, as) => Retires(ids, as)'
      BY <1>1, <1>3 DEF Retires
    <2> QED
      BY <1>2, <2>1, SameJob DEF LedgerInv
  <1> QED
    BY <1>1, <1>4, <1>5, <1>6, <1>7 DEF LedgerInv

LEMMA EndsKeeps ==
  ASSUME LedgerInv, AppendEnds
  PROVE  LedgerInv'
  <1>1. PICK c : Unfinished = {c} /\ Lands(c)
    BY EndsFile DEF LedgerInv
  <1>2. /\ FileInv' /\ Pending' = todo /\ todo' = todo /\ Unfinished' = {}
        /\ job' = job /\ Len(file') = Len(file)
        /\ \A k \in 1 .. Len(file') : file'[k].id = file[k].id
        /\ UNCHANGED <<artifacts, worktree, synced>>
    BY EndsFile DEF LedgerInv, AppendEnds
  <1>3. ArtifactInv'
    BY <1>2 DEF LedgerInv, ArtifactInv
  <1>4. PendingInv' /\ SyncedInv'
    BY <1>1, <1>2, LandsPending, LandsSynced DEF LedgerInv
  <1>5. JobInv'
    <2>1. \A ids \in SUBSET Ids, as \in {"stale", "superseded"} :
             Retires(ids, as) => Retires(ids, as)'
      BY <1>1, <1>2, LandsRetires DEF LedgerInv
    <2> QED
      BY <1>2, <2>1, SameJob DEF LedgerInv
  <1> QED
    BY <1>2, <1>3, <1>4, <1>5 DEF LedgerInv

\* A failed append ends the handler, and so does a crash.
LEMMA EndedKeeps ==
  ASSUME LedgerInv, FileInv', Pending' = {}, todo' = {}, job' = <<>>,
         Status' = Status \/ \E c : Lands(c),
         Len(file') <= Len(file), file' \in Seq(Piece),
         \A k \in 1 .. Len(file') : file'[k].id = file[k].id,
         UNCHANGED <<artifacts, worktree, synced>>
  PROVE  LedgerInv'
  <1>1. ArtifactInv'
    <2>1. \A k \in 1 .. Len(file') : k \in 1 .. Len(file)
      BY DEF LedgerInv, FileInv
    <2> QED
      BY <2>1 DEF LedgerInv, ArtifactInv
  <1>2. PendingInv'
    BY DEF PendingInv
  <1>3. SyncedInv'
    <2>1. CASE Status' = Status
      BY <2>1 DEF LedgerInv, SyncedInv, Present
    <2>2. CASE \E c : Lands(c)
      BY <2>2, LandsSynced DEF LedgerInv
    <2> QED
      BY <2>1, <2>2
  <1>4. JobInv'
    BY DEF JobInv
  <1> QED
    BY <1>1, <1>2, <1>3, <1>4 DEF LedgerInv

LEMMA FailsKeeps ==
  ASSUME "partial" \notin Faults, LedgerInv, AppendFails
  PROVE  LedgerInv'
  <1>1. UNCHANGED <<artifacts, worktree, synced>>
    BY DEF AppendFails
  <1>2. /\ FileInv' /\ Status' = Status
        /\ Pending' = {} /\ todo' = {} /\ job' = <<>>
        /\ Len(file') <= Len(file)
        /\ \A k \in 1 .. Len(file') : file'[k] = file[k]
    BY FailsFile DEF LedgerInv
  <1>3. file' \in Seq(Piece)
    BY <1>2 DEF FileInv
  <1> QED
    BY <1>1, <1>2, <1>3, EndedKeeps

LEMMA CrashKeeps ==
  ASSUME LedgerInv, Crash
  PROVE  LedgerInv'
  <1>1. UNCHANGED <<artifacts, worktree, synced>>
    BY DEF Crash
  <1>2. /\ FileInv'
        /\ Status' = Status \/ \E c : Unfinished = {c} /\ Lands(c)
        /\ Pending' = {} /\ todo' = {} /\ job' = <<>>
        /\ Len(file') <= Len(file)
        /\ \A k \in 1 .. Len(file') : file'[k].id = file[k].id
    BY CrashFile DEF LedgerInv
  <1>3. file' \in Seq(Piece)
    BY <1>2 DEF FileInv
  <1> QED
    BY <1>1, <1>2, <1>3, EndedKeeps

LEMMA ReadsKeeps ==
  ASSUME LedgerInv, Start \/ ParentReads
  PROVE  LedgerInv'
  <1>1. /\ FileInv' /\ Status' = Status
        /\ Pending' = Pending /\ Unfinished' = {} /\ todo' = todo
        /\ Len(file') <= Len(file)
        /\ \A k \in 1 .. Len(file') : file'[k] = file[k]
    BY ReadsFile DEF LedgerInv
  <1>2. UNCHANGED <<artifacts, worktree, synced>>
    BY DEF Start, ParentReads
  <1>3. ArtifactInv'
    <2>1. \A k \in 1 .. Len(file') : k \in 1 .. Len(file)
      BY <1>1 DEF LedgerInv, FileInv
    <2> QED
      BY <1>1, <1>2, <2>1 DEF LedgerInv, ArtifactInv
  <1>4. PendingInv'
    BY <1>1, <1>2 DEF LedgerInv, PendingInv, Present
  <1>5. SyncedInv'
    BY <1>1, <1>2 DEF LedgerInv, SyncedInv, Present
  <1>6. CASE Start
    <2>1. JobInv'
      BY <1>6 DEF Start, JobInv
    <2> QED
      BY <1>1, <1>3, <1>4, <1>5, <2>1 DEF LedgerInv
  <1>7. CASE ParentReads
    <2>1. \A ids \in SUBSET Ids, as \in {"stale", "superseded"} :
             Retires(ids, as) => Retires(ids, as)'
      BY <1>1 DEF Retires
    <2>2. JobInv'
      BY <1>2, <1>7, <2>1, SameJob DEF LedgerInv, ParentReads, store
    <2> QED
      BY <1>1, <1>3, <1>4, <1>5, <2>2 DEF LedgerInv
  <1> QED
    BY <1>6, <1>7

-----------------------------------------------------------------------------
(* The handlers and their steps.                                           *)

LEMMA MutatesIs ==
  ASSUME NEW arg
  PROVE  /\ \A name \in {"artifact", "write", "goal", "invalidated"} :
               Mutates(Step(name, arg)) = {{}}
         /\ Mutates(Step("capture", arg)) = Captures(arg)
         /\ Mutates(Step("supersedeGoal", arg)) = {Retired(ActiveIds, "superseded")}
         /\ Mutates(Step("supersedeReproductions", arg)) =
               {Retired(ActiveIds \cap Reproductions, "superseded")}
         /\ Mutates(Step("invalidate", arg)) =
               {Retired({i \in ActiveIds : Outdated(i)}, "stale")}
  BY StepIs DEF Mutates

LEMMA StepFacts ==
  ASSUME LedgerInv, HandlerStep, NEW name, NEW arg, Head(job) = Step(name, arg)
  PROVE  /\ up /\ todo = {} /\ Pending = {} /\ mem = Status
         /\ FileInv' /\ Status' = Status /\ Pending' = todo' /\ Unfinished' = {}
         /\ file' = file /\ job' = Tail(job)
         /\ todo' \in Mutates(Step(name, arg))
         /\ artifacts' = IF name = "artifact" /\ ~ Active(arg)
                         THEN artifacts \cup {arg} ELSE artifacts
         /\ worktree' = IF name = "write" THEN arg.at ELSE worktree
         /\ goal' = IF name = "goal" THEN goal + 1 ELSE goal
         /\ synced' = IF name = "write" THEN FALSE
                      ELSE IF name = "invalidated" THEN TRUE ELSE synced
  <1>1. up /\ todo = {} /\ ~appending /\ UNCHANGED <<file, mem, up, appending>>
        /\ job' = Tail(job) /\ todo' \in Mutates(Head(job))
    BY DEF HandlerStep, Ready
  <1>2. /\ artifacts' = IF name = "artifact" /\ ~ Active(arg)
                        THEN artifacts \cup {arg} ELSE artifacts
        /\ worktree' = IF name = "write" THEN arg.at ELSE worktree
        /\ goal' = IF name = "goal" THEN goal + 1 ELSE goal
        /\ synced' = IF name = "write" THEN FALSE
                     ELSE IF name = "invalidated" THEN TRUE ELSE synced
    <2>0. Head(job).do = name /\ Head(job).arg = arg
      BY StepIs
    <2>1. artifacts' = IF name = "artifact" /\ ~ Active(arg)
                       THEN artifacts \cup {arg} ELSE artifacts
      BY <2>0 DEF HandlerStep
    <2>2. /\ worktree' = IF name = "write" THEN arg.at ELSE worktree
          /\ goal' = IF name = "goal" THEN goal + 1 ELSE goal
      BY <2>0 DEF HandlerStep
    <2>3. synced' = IF name = "write" THEN FALSE
                    ELSE IF name = "invalidated" THEN TRUE ELSE synced
      BY <2>0 DEF HandlerStep
    <2> QED
      BY <2>1, <2>2, <2>3
  <1>3. FileInv' /\ Status' = Status /\ Pending' = todo' /\ Unfinished' = {}
    BY <1>1, SameFile DEF LedgerInv
  <1>4. Pending = {} /\ mem = Status
    BY <1>1, UnfinishedIs DEF LedgerInv, FileInv
  <1> QED
    BY <1>1, <1>2, <1>3, <1>4

LEMMA StepGoal ==
  ASSUME LedgerInv, HandlerStep, NEW name, NEW arg, Head(job) = Step(name, arg)
  PROVE  /\ job' = Tail(job)
         /\ name # "goal" => goal' = goal
         /\ name = "goal" => goal' = goal + 1
  BY StepFacts

\* What a step that appends nothing leaves.
LEMMA NothingAppended ==
  ASSUME LedgerInv, HandlerStep, NEW name, NEW arg, Head(job) = Step(name, arg),
         name \in {"artifact", "goal"}
  PROVE  /\ FileInv' /\ ArtifactInv' /\ PendingInv' /\ SyncedInv'
         /\ Status' = Status /\ Pending = {} /\ Pending' = {}
         /\ worktree' = worktree /\ artifacts \subseteq artifacts'
         /\ name = "artifact" /\ HasArtifact(arg) /\ arg \in Ids => arg \in artifacts'
  <1>1. /\ todo' = {} /\ FileInv' /\ Status' = Status /\ Pending' = {}
        /\ Pending = {} /\ file' = file /\ Unfinished' = {} /\ mem = Status
        /\ worktree' = worktree /\ synced' = synced
        /\ artifacts' = IF name = "artifact" /\ ~ Active(arg)
                        THEN artifacts \cup {arg} ELSE artifacts
    <2>1. Mutates(Step(name, arg)) = {{}}
      BY MutatesIs
    <2>2. /\ FileInv' /\ Status' = Status /\ Pending' = todo'
          /\ Pending = {} /\ file' = file /\ Unfinished' = {} /\ mem = Status
          /\ todo' \in Mutates(Step(name, arg))
      BY StepFacts
    <2>3. artifacts' = IF name = "artifact" /\ ~ Active(arg)
                       THEN artifacts \cup {arg} ELSE artifacts
      BY StepFacts
    <2>4. /\ worktree' = IF name = "write" THEN arg.at ELSE worktree
          /\ synced' = IF name = "write" THEN FALSE
                       ELSE IF name = "invalidated" THEN TRUE ELSE synced
      BY StepFacts
    <2> QED
      BY <2>1, <2>2, <2>3, <2>4
  <1>2. artifacts \subseteq artifacts'
    BY <1>1
  <1>3. ArtifactInv' /\ PendingInv' /\ SyncedInv'
    BY <1>1, <1>2 DEF LedgerInv, ArtifactInv, PendingInv, SyncedInv, Present
  <1>4. ASSUME name = "artifact", HasArtifact(arg), arg \in Ids
        PROVE  arg \in artifacts'
    <2>1. CASE Active(arg)
      <3>1. Status[arg] = "active"
        BY <1>1, <2>1 DEF Active
      <3>2. PICK k \in 1 .. Len(file) : file[k].id = arg
        BY <1>4, <3>1, ActiveIsInFile
      <3> QED
        BY <1>2, <1>4, <3>2 DEF LedgerInv, ArtifactInv
    <2>2. CASE ~Active(arg)
      BY <1>1, <1>4, <2>2
    <2> QED
      BY <2>1, <2>2
  <1> QED
    BY <1>1, <1>2, <1>3, <1>4

\* A step that retires active records.
LEMMA RetireStep ==
  ASSUME LedgerInv, HandlerStep, NEW name, NEW arg, Head(job) = Step(name, arg),
         name \in {"supersedeGoal", "supersedeReproductions", "invalidate"},
         NEW ids \in SUBSET ActiveIds, NEW as \in {"stale", "superseded"},
         todo' = Retired(ids, as)
  PROVE  /\ FileInv' /\ ArtifactInv' /\ PendingInv' /\ SyncedInv'
         /\ worktree' = worktree /\ artifacts' = artifacts
         /\ \A some \in SUBSET Ids : some \cap ActiveIds \subseteq ids
               => Retires(some, as)'
  <1>1. /\ FileInv' /\ Status' = Status /\ Pending' = todo'
        /\ Pending = {} /\ file' = file /\ Unfinished' = {} /\ mem = Status
        /\ worktree' = worktree /\ synced' = synced /\ artifacts' = artifacts
    BY StepFacts
  <1>2. \A i \in ids : i \in Ids /\ Status[i] = "active"
    BY <1>1 DEF ActiveIds, Active
  <1>3. \A c \in todo' : /\ c.id \in ids /\ c.status = as
                         /\ c = [id |-> c.id, status |-> as]
    <2>1. \A i \in ids : LET c == [id |-> i, status |-> as]
                         IN  c.id = i /\ c.status = as
      OBVIOUS
    <2>2. ASSUME NEW c \in todo'
          PROVE  \E i \in ids : c = [id |-> i, status |-> as]
      BY <2>2 DEF Retired
    <2> QED
      BY <2>1, <2>2
  <1>4. ArtifactInv'
    <2>1. ASSUME NEW c \in todo', HasArtifact(c.id)
          PROVE  c.id \in artifacts
      <3>1. PICK k \in 1 .. Len(file) : file[k].id = c.id
        BY <1>2, <1>3, ActiveIsInFile
      <3> QED
        BY <2>1, <3>1 DEF LedgerInv, ArtifactInv
    <2> QED
      BY <1>1, <2>1 DEF LedgerInv, ArtifactInv
  <1>5. PendingInv'
    <2>1. todo' \subseteq Change
      <3>1. \A i \in ids : [id |-> i, status |-> as] \in Change
        BY <1>2 DEF Change
      <3> QED
        BY <1>3, <3>1
    <2>2. \A c, d \in todo' : c.id = d.id => c = d
      BY <1>3
    <2>3. \A c \in todo' : c.status # "active" /\ Status'[c.id] = "active"
      BY <1>1, <1>2, <1>3
    <2> QED
      BY <1>1, <2>1, <2>2, <2>3 DEF PendingInv
  <1>6. SyncedInv'
    BY <1>1 DEF LedgerInv, SyncedInv, Present
  <1>7. ASSUME NEW some \in SUBSET Ids, some \cap ActiveIds \subseteq ids
        PROVE  Retires(some, as)'
    <2>1. \A c \in Pending' : c.status # "active"
      BY <1>1, <1>3
    <2>2. ASSUME NEW i \in some, Status'[i] = "active"
          PROVE  [id |-> i, status |-> as] \in Pending'
      <3>1. i \in ids
        BY <1>1, <1>7, <2>2 DEF ActiveIds, Active
      <3> QED
        BY <1>1, <3>1 DEF Retired
    <2> QED
      BY <2>1, <2>2 DEF Retires
  <1> QED
    BY <1>1, <1>4, <1>5, <1>6, <1>7

\* The last step of a job that records a fact.
LEMMA CaptureStep ==
  ASSUME LedgerInv, HandlerStep, NEW i \in Ids, Head(job) = Step("capture", i),
         Present(i), HasArtifact(i) => i \in artifacts,
         i \in Reproductions => Retires(Reproductions, "superseded")
  PROVE  FileInv' /\ ArtifactInv' /\ PendingInv' /\ SyncedInv' /\ Status' = Status
  <1>1. /\ FileInv' /\ Status' = Status /\ Pending' = todo'
        /\ Pending = {} /\ file' = file /\ Unfinished' = {} /\ mem = Status
        /\ worktree' = worktree /\ synced' = synced /\ artifacts' = artifacts
        /\ todo' \in Captures(i)
    <2>1. Mutates(Step("capture", i)) = Captures(i)
      BY MutatesIs
    <2>2. /\ FileInv' /\ Status' = Status /\ Pending' = todo'
          /\ Pending = {} /\ file' = file /\ Unfinished' = {} /\ mem = Status
          /\ todo' \in Mutates(Step("capture", i))
      BY StepFacts
    <2>3. /\ artifacts' = IF "capture" = "artifact" /\ ~ Active(i)
                          THEN artifacts \cup {i} ELSE artifacts
          /\ worktree' = IF "capture" = "write" THEN i.at ELSE worktree
          /\ synced' = IF "capture" = "write" THEN FALSE
                       ELSE IF "capture" = "invalidated" THEN TRUE ELSE synced
      BY StepFacts
    <2> QED
      BY <2>1, <2>2, <2>3
  <1> DEFINE c == [id |-> i, status |-> "active"]
  <1>2. todo' = {} \/ todo' = {c}
    BY <1>1 DEF Captures
  <1>3. c \in Change /\ c.id = i /\ c.status = "active"
    BY DEF Change
  <1>4. i \in Reproductions => \A r \in Reproductions : Status[r] # "active"
    BY <1>1 DEF Retires
  <1> HIDE DEF c
  <1>5. ArtifactInv'
    BY <1>1, <1>2, <1>3 DEF LedgerInv, ArtifactInv
  <1>6. PendingInv'
    BY <1>1, <1>2, <1>3, <1>4 DEF PendingInv, Present
  <1>7. SyncedInv'
    BY <1>1 DEF LedgerInv, SyncedInv, Present
  <1> QED
    BY <1>1, <1>5, <1>6, <1>7

LEMMA KeepsNow ==
  ASSUME FileInv', ArtifactInv', PendingInv', SyncedInv', JobInv'
  PROVE  LedgerInv'
  BY DEF LedgerInv

\* The steps of a job that records a fact about the content.
LEMMA RecordSteps ==
  ASSUME LedgerInv, HandlerStep, NEW i \in Ids, Recordable(i),
         \/ HasArtifact(i) /\ job = <<Step("artifact", i), Step("capture", i)>>
         \/ (HasArtifact(i) => i \in artifacts) /\ job = <<Step("capture", i)>>
  PROVE  LedgerInv' /\ goal' = goal
  <1>1. CASE HasArtifact(i) /\ job = <<Step("artifact", i), Step("capture", i)>>
    <2>1. Head(job) = Step("artifact", i) /\ Tail(job) = <<Step("capture", i)>>
      BY <1>1, HeadTailIs
    <2>2. /\ FileInv' /\ ArtifactInv' /\ PendingInv' /\ SyncedInv'
          /\ worktree' = worktree /\ i \in artifacts'
      BY <1>1, <2>1, NothingAppended
    <2>3. job' = <<Step("capture", i)>> /\ goal' = goal
      <3>1. goal' = goal
        BY <2>1, StepGoal
      <3>2. job' = Tail(job)
        BY <2>1, StepGoal
      <3> QED
        BY <2>1, <3>1, <3>2
    <2>4. Recordable(i)'
      BY <2>2 DEF Recordable, Present
    <2>5. JobInv'
      BY <2>2, <2>3, <2>4 DEF JobInv
    <2> QED
      BY <2>2, <2>3, <2>5, KeepsNow
  <1>2. CASE (HasArtifact(i) => i \in artifacts) /\ job = <<Step("capture", i)>>
    <2>1. Head(job) = Step("capture", i) /\ Tail(job) = <<>>
      BY <1>2, HeadTailIs
    <2>2. FileInv' /\ ArtifactInv' /\ PendingInv' /\ SyncedInv'
      BY <1>2, <2>1, CaptureStep DEF Recordable
    <2>3. job' = <<>> /\ goal' = goal
      <3>1. goal' = goal
        BY <2>1, StepGoal
      <3>2. job' = Tail(job)
        BY <2>1, StepGoal
      <3> QED
        BY <2>1, <3>1, <3>2
    <2>4. JobInv'
      BY <2>3 DEF JobInv
    <2> QED
      BY <2>2, <2>3, <2>4, KeepsNow
  <1> QED
    BY <1>1, <1>2

\* The steps of saveReproduction, and of a session that starts without its SQL.
LEMMA ReproductionSteps ==
  ASSUME LedgerInv, HandlerStep,
         \/ job = <<Step("supersedeReproductions", Ledger)>>
         \/ \E i \in Reproductions :
               \/ job = <<Step("artifact", i), Step("supersedeReproductions", Ledger),
                          Step("capture", i)>>
               \/ i \in artifacts /\ job = <<Step("supersedeReproductions", Ledger),
                                             Step("capture", i)>>
               \/ /\ i \in artifacts /\ job = <<Step("capture", i)>>
                  /\ Retires(Reproductions, "superseded")
  PROVE  LedgerInv' /\ goal' = goal
  <1> DEFINE super == Step("supersedeReproductions", Ledger)
  <1>0. \A i \in Reproductions : i \in Ids /\ HasArtifact(i) /\ Present(i)
    BY DEF Reproductions, HasArtifact, Present, VersionKinds
  <1>1. ASSUME Head(job) = super
        PROVE  /\ FileInv' /\ ArtifactInv' /\ PendingInv' /\ SyncedInv'
               /\ worktree' = worktree /\ artifacts' = artifacts /\ goal' = goal
               /\ Retires(Reproductions, "superseded")'
    <2>0. goal' = goal
      BY <1>1, StepGoal
    <2>1. todo' \in Mutates(super)
      BY <1>1, StepFacts
    <2>2. todo' = Retired(ActiveIds \cap Reproductions, "superseded")
      BY <2>1, MutatesIs
    <2>3. /\ ActiveIds \cap Reproductions \in SUBSET ActiveIds
          /\ Reproductions \in SUBSET Ids
          /\ Reproductions \cap ActiveIds \subseteq ActiveIds \cap Reproductions
      BY DEF Reproductions
    <2>4. /\ FileInv' /\ ArtifactInv' /\ PendingInv' /\ SyncedInv'
          /\ worktree' = worktree /\ artifacts' = artifacts
          /\ \A some \in SUBSET Ids :
                some \cap ActiveIds \subseteq ActiveIds \cap Reproductions
                   => Retires(some, "superseded")'
      BY <1>1, <2>2, <2>3, RetireStep
    <2> QED
      BY <2>0, <2>3, <2>4
  <1>2. CASE job = <<super>>
    <2>1. Head(job) = super /\ Tail(job) = <<>>
      BY <1>2, HeadTailIs
    <2>2. job' = <<>>
      BY <2>1, StepFacts
    <2>3. JobInv'
      BY <2>2 DEF JobInv
    <2> QED
      BY <1>1, <2>1, <2>3, KeepsNow
  <1>3. ASSUME NEW i \in Reproductions,
               job = <<Step("artifact", i), super, Step("capture", i)>>
        PROVE  LedgerInv' /\ goal' = goal
    <2>1. Head(job) = Step("artifact", i) /\ Tail(job) = <<super, Step("capture", i)>>
      BY <1>3, HeadTailIs
    <2>2. /\ FileInv' /\ ArtifactInv' /\ PendingInv' /\ SyncedInv'
          /\ i \in artifacts'
      BY <1>0, <2>1, NothingAppended
    <2>3. job' = <<super, Step("capture", i)>> /\ goal' = goal
      <3>1. goal' = goal
        BY <2>1, StepGoal
      <3>2. job' = Tail(job)
        BY <2>1, StepGoal
      <3> QED
        BY <2>1, <3>1, <3>2
    <2>4. JobInv'
      BY <2>2, <2>3 DEF JobInv
    <2> QED
      BY <2>2, <2>3, <2>4, KeepsNow
  <1>4. ASSUME NEW i \in Reproductions, i \in artifacts,
               job = <<super, Step("capture", i)>>
        PROVE  LedgerInv' /\ goal' = goal
    <2>1. Head(job) = super /\ Tail(job) = <<Step("capture", i)>>
      BY <1>4, HeadTailIs
    <2>2. job' = <<Step("capture", i)>>
      BY <2>1, StepFacts
    <2>3. JobInv'
      BY <1>1, <1>4, <2>1, <2>2 DEF JobInv
    <2> QED
      BY <1>1, <2>1, <2>3, KeepsNow
  <1>5. ASSUME NEW i \in Reproductions, i \in artifacts,
               job = <<Step("capture", i)>>, Retires(Reproductions, "superseded")
        PROVE  LedgerInv' /\ goal' = goal
    <2>1. Head(job) = Step("capture", i) /\ Tail(job) = <<>>
      BY <1>5, HeadTailIs
    <2>2. FileInv' /\ ArtifactInv' /\ PendingInv' /\ SyncedInv'
      BY <1>0, <1>5, <2>1, CaptureStep
    <2>3. job' = <<>> /\ goal' = goal
      <3>1. goal' = goal
        BY <2>1, StepGoal
      <3>2. job' = Tail(job)
        BY <2>1, StepGoal
      <3> QED
        BY <2>1, <3>1, <3>2
    <2>4. JobInv'
      BY <2>3 DEF JobInv
    <2> QED
      BY <2>2, <2>3, <2>4, KeepsNow
  <1> QED
    BY <1>2, <1>3, <1>4, <1>5

\* The steps that begin a goal: it is counted once no record is active.
LEMMA GoalSteps ==
  ASSUME LedgerInv, HandlerStep,
         \/ job = <<Step("supersedeGoal", Ledger), Step("goal", Ledger)>>
         \/ job = <<Step("goal", Ledger)>> /\ Retires(Ids, "superseded")
  PROVE  /\ LedgerInv'
         /\ goal' = goal \/ /\ goal' = goal + 1 /\ Status' = Status
                            /\ \A i \in Ids : Status[i] # "active"
  <1>1. CASE job = <<Step("supersedeGoal", Ledger), Step("goal", Ledger)>>
    <2>1. Head(job) = Step("supersedeGoal", Ledger)
          /\ Tail(job) = <<Step("goal", Ledger)>>
      BY <1>1, HeadTailIs
    <2>2. goal' = goal /\ job' = <<Step("goal", Ledger)>>
      <3>1. goal' = goal
        BY <2>1, StepGoal
      <3>2. job' = Tail(job)
        BY <2>1, StepGoal
      <3> QED
        BY <2>1, <3>1, <3>2
    <2>3. todo' = Retired(ActiveIds, "superseded")
      <3>1. todo' \in Mutates(Step("supersedeGoal", Ledger))
        BY <2>1, StepFacts
      <3> QED
        BY <3>1, MutatesIs
    <2>4. /\ FileInv' /\ ArtifactInv' /\ PendingInv' /\ SyncedInv'
          /\ Retires(Ids, "superseded")'
      BY <2>1, <2>3, RetireStep
    <2>5. JobInv'
      BY <2>2, <2>4 DEF JobInv
    <2> QED
      BY <2>2, <2>4, <2>5, KeepsNow
  <1>2. CASE job = <<Step("goal", Ledger)>> /\ Retires(Ids, "superseded")
    <2>1. Head(job) = Step("goal", Ledger) /\ Tail(job) = <<>>
      BY <1>2, HeadTailIs
    <2>2. /\ FileInv' /\ ArtifactInv' /\ PendingInv' /\ SyncedInv'
          /\ Status' = Status /\ Pending = {}
      BY <2>1, NothingAppended
    <2>3. job' = <<>> /\ goal' = goal + 1
      <3>1. goal' = goal + 1
        BY <2>1, StepGoal
      <3>2. job' = Tail(job)
        BY <2>1, StepGoal
      <3> QED
        BY <2>1, <3>1, <3>2
    <2>4. JobInv'
      BY <2>3 DEF JobInv
    <2>5. \A i \in Ids : Status[i] # "active"
      BY <1>2, <2>2 DEF Retires
    <2> QED
      BY <2>2, <2>3, <2>4, <2>5, KeepsNow
  <1> QED
    BY <1>1, <1>2

\* The steps of edit and of syncWorktreeChanges: the write, the invalidation of
\* what it outdates, its end, and the record of the change.
WriteStep(v) == Step("write", Content(v))
Invalidate == Step("invalidate", Ledger)
Invalidated == Step("invalidated", Ledger)

LEMMA PairBehind ==
  ASSUME NEW a, NEW b, NEW c
  PROVE  Head(<<a>> \o <<b, c>>) = a /\ Tail(<<a>> \o <<b, c>>) = <<b, c>>
  <1>1. <<a>> \o <<b, c>> = <<a, b, c>>
    BY Joined, Zenon
  <1>2. Head(<<a, b, c>>) = a /\ Tail(<<a, b, c>>) = <<b, c>>
    OBVIOUS
  <1> QED
    BY <1>1, <1>2, Zenon

LEMMA TripleBehind ==
  ASSUME NEW a, NEW b, NEW c, NEW d
  PROVE  Head(<<a>> \o <<b, c, d>>) = a /\ Tail(<<a>> \o <<b, c, d>>) = <<b, c, d>>
  <1>1. <<a>> \o <<b, c, d>> = <<a, b, c, d>>
    BY JoinedTriple, Zenon
  <1>2. Head(<<a, b, c, d>>) = a /\ Tail(<<a, b, c, d>>) = <<b, c, d>>
    OBVIOUS
  <1> QED
    BY <1>1, <1>2, Zenon

LEMMA InvalidationTail ==
  ASSUME NEW v
  PROVE  /\ Head(Invalidation(v)) = Invalidate
         /\ "change" \in Kinds =>
               Tail(Invalidation(v)) = <<Invalidated, Step("capture", ChangeOf(v))>>
         /\ "change" \notin Kinds => Tail(Invalidation(v)) = <<Invalidated>>
         /\ Head(<<WriteStep(v)>> \o Invalidation(v)) = WriteStep(v)
         /\ Tail(<<WriteStep(v)>> \o Invalidation(v)) = Invalidation(v)
  <1> DEFINE record == Step("capture", ChangeOf(v))
             write == WriteStep(v)
             steps == Invalidation(v)
  <1>1. /\ "change" \in Kinds => steps = <<Invalidate, Invalidated, record>>
        /\ "change" \notin Kinds => steps = <<Invalidate, Invalidated>>
    BY InvalidationIs DEF Invalidate, Invalidated
  <1> HIDE DEF record, write, steps
  <1>2. CASE "change" \in Kinds
    <2>1. steps = <<Invalidate, Invalidated, record>>
      BY <1>1, <1>2
    <2>2. Head(steps) = Invalidate /\ Tail(steps) = <<Invalidated, record>>
      BY <2>1, HeadTailIs
    <2>3. /\ Head(<<write>> \o <<Invalidate, Invalidated, record>>) = write
          /\ Tail(<<write>> \o <<Invalidate, Invalidated, record>>) =
                <<Invalidate, Invalidated, record>>
      BY TripleBehind
    <2>4. Head(<<write>> \o steps) = write /\ Tail(<<write>> \o steps) = steps
      BY <2>1, <2>3, Zenon
    <2> QED
      BY <1>2, <2>2, <2>4 DEF record, write, steps
  <1>3. CASE "change" \notin Kinds
    <2>1. steps = <<Invalidate, Invalidated>>
      BY <1>1, <1>3
    <2>2. Head(steps) = Invalidate /\ Tail(steps) = <<Invalidated>>
      BY <2>1, HeadTailIs
    <2>3. /\ Head(<<write>> \o <<Invalidate, Invalidated>>) = write
          /\ Tail(<<write>> \o <<Invalidate, Invalidated>>) =
                <<Invalidate, Invalidated>>
      BY PairBehind, Zenon
    <2>4. Head(<<write>> \o steps) = write /\ Tail(<<write>> \o steps) = steps
      BY <2>1, <2>3, Zenon
    <2> QED
      BY <1>3, <2>2, <2>4 DEF record, write, steps
  <1> QED
    BY <1>2, <1>3

LEMMA WriteKeeps ==
  ASSUME LedgerInv, HandlerStep, NEW v \in Versions,
         job = <<WriteStep(v)>> \o Invalidation(v)
  PROVE  LedgerInv' /\ goal' = goal
  <1>1. Head(job) = Step("write", Content(v)) /\ Tail(job) = Invalidation(v)
    BY InvalidationTail DEF WriteStep
  <1>2. goal' = goal
    BY <1>1, StepGoal
  <1>3. /\ FileInv' /\ Pending' = todo' /\ Unfinished' = {} /\ file' = file
        /\ job' = Invalidation(v) /\ todo' \in Mutates(Step("write", Content(v)))
    BY <1>1, StepFacts
  <1>4. todo' = {}
    BY <1>3, MutatesIs
  <1>5. worktree' = Content(v).at /\ synced' = FALSE /\ artifacts' = artifacts
    <2>1. artifacts' = IF "write" = "artifact" /\ ~ Active(Content(v))
                       THEN artifacts \cup {Content(v)} ELSE artifacts
      BY <1>1, StepFacts
    <2>2. /\ worktree' = IF "write" = "write" THEN Content(v).at ELSE worktree
          /\ synced' = IF "write" = "write" THEN FALSE
                       ELSE IF "write" = "invalidated" THEN TRUE ELSE synced
      BY <1>1, StepFacts
    <2> QED
      BY <2>1, <2>2
  <1>6. worktree' = v
    BY <1>5 DEF Content
  <1>7. ArtifactInv'
    BY <1>3, <1>4, <1>5 DEF LedgerInv, ArtifactInv
  <1>8. PendingInv' /\ SyncedInv'
    BY <1>3, <1>4, <1>5 DEF PendingInv, SyncedInv
  <1>9. JobInv'
    BY <1>3, <1>6 DEF JobInv
  <1> QED
    BY <1>2, <1>3, <1>7, <1>8, <1>9, KeepsNow

LEMMA InvalidateKeeps ==
  ASSUME LedgerInv, HandlerStep, job = Invalidation(worktree)
  PROVE  LedgerInv' /\ goal' = goal
  <1> DEFINE old == {i \in Ids : Outdated(i)}
  <1>1. Head(job) = Step("invalidate", Ledger)
    BY InvalidationTail DEF Invalidate
  <1>2. goal' = goal
    BY <1>1, StepGoal
  <1>3. job' = Tail(Invalidation(worktree))
    BY <1>1, StepGoal
  <1>4. todo' = Retired({i \in ActiveIds : Outdated(i)}, "stale")
    <2>1. todo' \in Mutates(Step("invalidate", Ledger))
      BY <1>1, StepFacts
    <2> QED
      BY <2>1, MutatesIs
  <1>5. {i \in ActiveIds : Outdated(i)} \in SUBSET ActiveIds
        /\ old \in SUBSET Ids
        /\ old \cap ActiveIds \subseteq {i \in ActiveIds : Outdated(i)}
    OBVIOUS
  <1>6. /\ FileInv' /\ ArtifactInv' /\ PendingInv' /\ SyncedInv'
        /\ worktree' = worktree
        /\ \A some \in SUBSET Ids :
              some \cap ActiveIds \subseteq {i \in ActiveIds : Outdated(i)}
                 => Retires(some, "stale")'
    BY <1>1, <1>4, <1>5, RetireStep
  <1>8. {i \in Ids : Outdated(i)}' = old
    BY <1>6 DEF Outdated
  <1> HIDE DEF old
  <1>7. /\ \A c \in Pending' : c.status # "active"
        /\ \A i \in old :
              Status'[i] = "active" => [id |-> i, status |-> "stale"] \in Pending'
    BY <1>5, <1>6 DEF Retires
  <1>9. JobInv'
    <2>1. Retires({i \in Ids : Outdated(i)}, "stale")'
      BY <1>7, <1>8 DEF Retires
    <2>2. job' = Tail(Invalidation(worktree'))
      BY <1>3, <1>6
    <2> QED
      BY <2>1, <2>2 DEF JobInv
  <1> QED
    BY <1>2, <1>6, <1>9, KeepsNow

LEMMA InvalidatedIs ==
  ASSUME job = Tail(Invalidation(worktree))
  PROVE  /\ Head(job) = Step("invalidated", Ledger)
         /\ "change" \in Kinds => Tail(job) = <<Step("capture", ChangeOf(worktree))>>
         /\ "change" \notin Kinds => Tail(job) = <<>>
  <1> DEFINE record == Step("capture", ChangeOf(worktree))
  <1>1. /\ "change" \in Kinds => job = <<Invalidated, record>>
        /\ "change" \notin Kinds => job = <<Invalidated>>
    BY InvalidationTail
  <1> HIDE DEF record
  <1>2. ASSUME "change" \in Kinds
        PROVE  Head(job) = Invalidated /\ Tail(job) = <<record>>
    <2>1. job = <<Invalidated, record>>
      BY <1>1, <1>2
    <2>2. /\ Head(<<Invalidated, record>>) = Invalidated
          /\ Tail(<<Invalidated, record>>) = <<record>>
      OBVIOUS
    <2> QED
      BY <2>1, <2>2, Zenon
  <1>3. ASSUME "change" \notin Kinds
        PROVE  Head(job) = Invalidated /\ Tail(job) = <<>>
    <2>1. job = <<Invalidated>>
      BY <1>1, <1>3
    <2>2. Head(<<Invalidated>>) = Invalidated /\ Tail(<<Invalidated>>) = <<>>
      OBVIOUS
    <2> QED
      BY <2>1, <2>2, Zenon
  <1> QED
    BY <1>2, <1>3 DEF record, Invalidated

LEMMA InvalidatedKeeps ==
  ASSUME LedgerInv, HandlerStep, worktree \in Versions,
         Head(job) = Step("invalidated", Ledger),
         "change" \in Kinds => Tail(job) = <<Step("capture", ChangeOf(worktree))>>,
         "change" \notin Kinds => Tail(job) = <<>>,
         Retires({i \in Ids : Outdated(i)}, "stale")
  PROVE  LedgerInv' /\ goal' = goal
  <1>1. Head(job) = Step("invalidated", Ledger)
    OBVIOUS
  <1>2. goal' = goal
    BY <1>1, StepGoal
  <1>3. job' = Tail(job)
    BY <1>1, StepGoal
  <1>4. /\ FileInv' /\ Pending' = todo' /\ Unfinished' = {} /\ file' = file
        /\ Status' = Status /\ Pending = {}
        /\ todo' \in Mutates(Step("invalidated", Ledger))
    BY <1>1, StepFacts
  <1>5. todo' = {}
    BY <1>4, MutatesIs
  <1>6. worktree' = worktree /\ artifacts' = artifacts
    <2>1. artifacts' = IF "invalidated" = "artifact" /\ ~ Active(Ledger)
                       THEN artifacts \cup {Ledger} ELSE artifacts
      BY <1>1, StepFacts
    <2>2. worktree' = IF "invalidated" = "write" THEN Ledger.at ELSE worktree
      BY <1>1, StepFacts
    <2> QED
      BY <2>1, <2>2
  <1>7. ArtifactInv'
    BY <1>4, <1>5, <1>6 DEF LedgerInv, ArtifactInv
  <1>8. PendingInv'
    BY <1>4, <1>5 DEF PendingInv
  <1>9. SyncedInv'
    <2>1. ASSUME NEW i \in Ids, Status[i] = "active" PROVE Present(i)
      <3>1. ~Outdated(i)
        BY <1>4, <2>1 DEF Retires
      <3> QED
        BY <3>1 DEF Outdated, Present, VersionKinds
    <2> QED
      BY <1>4, <1>6, <2>1 DEF SyncedInv, Present
  <1>10. JobInv'
    <2>1. CASE "change" \in Kinds
      <3>0. PICK i : i = ChangeOf(worktree)
        OBVIOUS
      <3>1. i \in Ids \ Reproductions /\ ~HasArtifact(i) /\ i.at = worktree
        BY <2>1, <3>0, ChangeOfIs
      <3>2. Recordable(i)'
        BY <1>6, <3>1 DEF Recordable, Present
      <3>3. job' = <<Step("capture", i)>>
        BY <1>3, <2>1, <3>0
      <3> QED
        BY <3>1, <3>2, <3>3 DEF JobInv
    <2>2. CASE "change" \notin Kinds
      <3>1. job' = <<>>
        BY <1>3, <2>2
      <3> QED
        BY <3>1 DEF JobInv
    <2> QED
      BY <2>1, <2>2
  <1> QED
    BY <1>2, <1>4, <1>7, <1>8, <1>9, <1>10, KeepsNow

LEMMA HandlerStepKeeps ==
  ASSUME LedgerInv, worktree \in Versions, HandlerStep
  PROVE  /\ LedgerInv'
         /\ goal' = goal \/ /\ goal' = goal + 1 /\ Status' = Status
                            /\ \A i \in Ids : Status[i] # "active"
  <1>0. job # <<>>
    BY DEF HandlerStep
  <1>1. ASSUME NEW i \in Ids, Recordable(i),
               \/ HasArtifact(i) /\ job = <<Step("artifact", i), Step("capture", i)>>
               \/ (HasArtifact(i) => i \in artifacts) /\ job = <<Step("capture", i)>>
        PROVE  LedgerInv' /\ goal' = goal
    BY <1>1, RecordSteps
  <1>2. CASE \/ job = <<Step("supersedeReproductions", Ledger)>>
             \/ \E i \in Reproductions :
                   \/ job = <<Step("artifact", i), Step("supersedeReproductions", Ledger),
                              Step("capture", i)>>
                   \/ i \in artifacts /\ job = <<Step("supersedeReproductions", Ledger),
                                                 Step("capture", i)>>
                   \/ /\ i \in artifacts /\ job = <<Step("capture", i)>>
                      /\ Retires(Reproductions, "superseded")
    BY <1>2, ReproductionSteps
  <1>3. CASE \/ job = <<Step("supersedeGoal", Ledger), Step("goal", Ledger)>>
             \/ job = <<Step("goal", Ledger)>> /\ Retires(Ids, "superseded")
    BY <1>3, GoalSteps
  <1>4. ASSUME NEW v \in Versions, job = <<Step("write", Content(v))>> \o Invalidation(v)
        PROVE  LedgerInv' /\ goal' = goal
    BY <1>4, WriteKeeps DEF WriteStep
  <1>5. CASE job = Invalidation(worktree)
    BY <1>5, InvalidateKeeps
  <1>6. CASE /\ job = Tail(Invalidation(worktree))
             /\ Retires({i \in Ids : Outdated(i)}, "stale")
    BY <1>6, InvalidatedIs, InvalidatedKeeps
  <1>7. JobInv
    BY DEF LedgerInv
  <1> HIDE DEF Retires
  <1> QED
    BY <1>0, <1>1, <1>2, <1>3, <1>4, <1>5, <1>6, <1>7 DEF JobInv

\* A handler that begins has done nothing yet.
LEMMA HandleIs ==
  ASSUME LedgerInv, NEW steps, Handle(steps)
  PROVE  /\ FileInv' /\ ArtifactInv' /\ PendingInv' /\ SyncedInv'
         /\ Status' = Status /\ job' = steps
         /\ UNCHANGED <<artifacts, worktree, goal>>
  <1>1. /\ up /\ todo = {} /\ ~appending /\ job' = steps
        /\ UNCHANGED <<file, mem, up, todo, appending>>
        /\ UNCHANGED <<artifacts, worktree, goal, synced>>
    BY DEF Handle, Idle, Ready, disk
  <1>2. FileInv' /\ Status' = Status /\ Pending' = todo' /\ Unfinished' = {}
    BY <1>1, SameFile DEF LedgerInv
  <1>3. ArtifactInv'
    BY <1>1 DEF LedgerInv, ArtifactInv
  <1>4. PendingInv'
    BY <1>1, <1>2 DEF PendingInv
  <1>5. SyncedInv'
    BY <1>1, <1>2 DEF LedgerInv, SyncedInv, Present
  <1> QED
    BY <1>1, <1>2, <1>3, <1>4, <1>5

LEMMA RecordBegins ==
  ASSUME LedgerInv, NEW i \in Ids, Record(i)
  PROVE  LedgerInv'
  <1>1. Handle(Recording(i)) /\ Recordable(i)
    BY DEF Record, Recordable, Reproductions, Present
  <1>2. /\ FileInv' /\ ArtifactInv' /\ PendingInv' /\ SyncedInv'
        /\ job' = Recording(i) /\ worktree' = worktree
    BY <1>1, HandleIs
  <1>3. Recordable(i)'
    BY <1>1, <1>2 DEF Recordable, Present
  <1>4. \/ HasArtifact(i) /\ job' = <<Step("artifact", i), Step("capture", i)>>
        \/ ~HasArtifact(i) /\ job' = <<Step("capture", i)>>
    BY <1>2, RecordingIs
  <1>5. JobInv'
    BY <1>3, <1>4 DEF JobInv
  <1> QED
    BY <1>2, <1>5, KeepsNow

LEMMA SaveBegins ==
  ASSUME LedgerInv, NEW i \in Ids, SaveReproduction(i)
  PROVE  LedgerInv'
  <1>1. i \in Reproductions
        /\ Handle(<<Step("artifact", i), Step("supersedeReproductions", Ledger),
                    Step("capture", i)>>)
    BY DEF SaveReproduction
  <1>2. /\ FileInv' /\ ArtifactInv' /\ PendingInv' /\ SyncedInv'
        /\ job' = <<Step("artifact", i), Step("supersedeReproductions", Ledger),
                    Step("capture", i)>>
    BY <1>1, HandleIs
  <1>3. JobInv'
    BY <1>1, <1>2 DEF JobInv
  <1> QED
    BY <1>2, <1>3, KeepsNow

LEMMA EditBegins ==
  ASSUME LedgerInv, NEW v \in Versions, Edit(v)
  PROVE  LedgerInv'
  <1>1. v # worktree /\ Handle(<<Step("write", Content(v))>> \o Invalidation(v))
    BY DEF Edit
  <1>2. /\ FileInv' /\ ArtifactInv' /\ PendingInv' /\ SyncedInv'
        /\ job' = <<Step("write", Content(v))>> \o Invalidation(v)
        /\ worktree' = worktree
    BY <1>1, HandleIs
  <1>3. JobInv'
    BY <1>1, <1>2 DEF JobInv
  <1> QED
    BY <1>2, <1>3, KeepsNow

LEMMA GoalBegins ==
  ASSUME LedgerInv, BeginGoal
  PROVE  LedgerInv'
  <1>1. Handle(<<Step("supersedeGoal", Ledger), Step("goal", Ledger)>>)
    BY DEF BeginGoal
  <1>2. /\ FileInv' /\ ArtifactInv' /\ PendingInv' /\ SyncedInv'
        /\ job' = <<Step("supersedeGoal", Ledger), Step("goal", Ledger)>>
    BY <1>1, HandleIs
  <1>3. JobInv'
    BY <1>2 DEF JobInv
  <1> QED
    BY <1>2, <1>3, KeepsNow

LEMMA SyncBegins ==
  ASSUME LedgerInv, SyncWorktree
  PROVE  LedgerInv'
  <1>1. Handle(Invalidation(worktree))
    BY DEF SyncWorktree
  <1>2. /\ FileInv' /\ ArtifactInv' /\ PendingInv' /\ SyncedInv'
        /\ job' = Invalidation(worktree) /\ worktree' = worktree
    BY <1>1, HandleIs
  <1>3. JobInv'
    BY <1>2 DEF JobInv
  <1> QED
    BY <1>2, <1>3, KeepsNow

\* The worktree only takes contents an edit can write.
LEMMA StepContent ==
  ASSUME LedgerInv, worktree \in Versions, HandlerStep
  PROVE  worktree' \in Versions
  <1>1. \/ worktree' = worktree
        \/ Head(job).do = "write" /\ worktree' = Head(job).arg.at
    BY DEF HandlerStep
  <1>2. ASSUME NEW name, NEW arg, Head(job) = Step(name, arg), name # "write"
        PROVE  worktree' \in Versions
    BY <1>1, <1>2, StepIs
  <1>3. ASSUME NEW v \in Versions, job = <<Step("write", Content(v))>> \o Invalidation(v)
        PROVE  worktree' \in Versions
    <2>1. Head(job) = Step("write", Content(v))
      BY <1>3, InvalidationTail DEF WriteStep
    <2> QED
      BY <1>1, <2>1, StepIs DEF Content
  <1>4. CASE job = Invalidation(worktree)
    <2>1. Head(job) = Step("invalidate", Ledger)
      BY <1>4, InvalidationTail DEF Invalidate
    <2> QED
      BY <1>2, <2>1
  <1>5. CASE job = Tail(Invalidation(worktree))
    BY <1>2, <1>5, InvalidatedIs
  <1>6. ASSUME NEW i, \/ job = <<Step("artifact", i), Step("capture", i)>>
                      \/ job = <<Step("capture", i)>>
                      \/ job = <<Step("artifact", i), Step("supersedeReproductions", Ledger),
                                 Step("capture", i)>>
                      \/ job = <<Step("supersedeReproductions", Ledger), Step("capture", i)>>
        PROVE  worktree' \in Versions
    <2>1. \/ Head(job) = Step("artifact", i) \/ Head(job) = Step("capture", i)
          \/ Head(job) = Step("supersedeReproductions", Ledger)
      BY <1>6, HeadTailIs
    <2> QED
      BY <1>2, <2>1
  <1>7. CASE \/ job = <<Step("supersedeReproductions", Ledger)>>
             \/ job = <<Step("supersedeGoal", Ledger), Step("goal", Ledger)>>
             \/ job = <<Step("goal", Ledger)>>
    <2>1. \/ Head(job) = Step("supersedeReproductions", Ledger)
          \/ Head(job) = Step("supersedeGoal", Ledger)
          \/ Head(job) = Step("goal", Ledger)
      BY <1>7, HeadTailIs
    <2> QED
      BY <1>2, <2>1
  <1>8. job # <<>> /\ JobInv
    BY DEF HandlerStep, LedgerInv
  <1> QED
    BY <1>3, <1>4, <1>5, <1>6, <1>7, <1>8 DEF JobInv

\* A step of the ledger as the tools see it through the file.
SeenStep ==
    \/ Status' = Status /\ goal' = goal
    \/ (\E c : Lands(c)) /\ goal' = goal
    \/ /\ Status' = Status /\ goal' = goal + 1
       /\ \A i \in Ids : Status[i] # "active"

LEMMA NextKeeps ==
  ASSUME "partial" \notin Faults, LedgerInv, worktree \in Versions, [Next]_vars
  PROVE  LedgerInv' /\ worktree' \in Versions /\ SeenStep
  <1>0. ASSUME worktree' = worktree, goal' = goal,
               Status' = Status \/ \E c : Lands(c)
        PROVE  worktree' \in Versions /\ SeenStep
    BY <1>0 DEF SeenStep
  <1>1. CASE AppendBegins
    <2>1. worktree' = worktree /\ goal' = goal
      BY <1>1 DEF AppendBegins
    <2> QED
      BY <1>0, <1>1, <2>1, BeginsKeeps
  <1>2. CASE AppendEnds
    <2>1. worktree' = worktree /\ goal' = goal
      BY <1>2 DEF AppendEnds
    <2>2. \E c : Lands(c)
      BY <1>2, EndsFile DEF LedgerInv
    <2> QED
      BY <1>0, <1>2, <2>1, <2>2, EndsKeeps
  <1>3. CASE AppendFails
    <2>1. worktree' = worktree /\ goal' = goal
      BY <1>3 DEF AppendFails
    <2>2. Status' = Status
      BY <1>3, FailsFile DEF LedgerInv
    <2> QED
      BY <1>0, <1>3, <2>1, <2>2, FailsKeeps
  <1>4. CASE HandlerStep
    <2>1. Status' = Status
      BY <1>4 DEF HandlerStep, Status
    <2>2. worktree' \in Versions
      BY <1>4, StepContent
    <2>3. LedgerInv' /\ SeenStep
      BY <1>4, <2>1, HandlerStepKeeps DEF SeenStep
    <2> QED
      BY <2>2, <2>3
  <1>5. ASSUME NEW steps, Handle(steps), LedgerInv'
        PROVE  LedgerInv' /\ worktree' \in Versions /\ SeenStep
    <2>1. Status' = Status /\ worktree' = worktree /\ goal' = goal
      BY <1>5, HandleIs
    <2> QED
      BY <1>0, <1>5, <2>1
  <1>6. ASSUME NEW i \in Ids, Record(i)
        PROVE  LedgerInv' /\ worktree' \in Versions /\ SeenStep
    <2>1. Handle(Recording(i))
      BY <1>6 DEF Record
    <2> QED
      BY <1>5, <1>6, <2>1, RecordBegins
  <1>7. ASSUME NEW i \in Ids, SaveReproduction(i)
        PROVE  LedgerInv' /\ worktree' \in Versions /\ SeenStep
    <2>1. Handle(<<Step("artifact", i), Step("supersedeReproductions", Ledger),
                   Step("capture", i)>>)
      BY <1>7 DEF SaveReproduction
    <2> QED
      BY <1>5, <1>7, <2>1, SaveBegins
  <1>8. ASSUME NEW v \in Versions, Edit(v)
        PROVE  LedgerInv' /\ worktree' \in Versions /\ SeenStep
    <2>1. Handle(<<Step("write", Content(v))>> \o Invalidation(v))
      BY <1>8 DEF Edit
    <2> QED
      BY <1>5, <1>8, <2>1, EditBegins
  <1>9. CASE BeginGoal
    <2>1. Handle(<<Step("supersedeGoal", Ledger), Step("goal", Ledger)>>)
      BY <1>9 DEF BeginGoal
    <2> QED
      BY <1>5, <1>9, <2>1, GoalBegins
  <1>10. CASE SyncWorktree
    <2>1. Handle(Invalidation(worktree))
      BY <1>10 DEF SyncWorktree
    <2> QED
      BY <1>5, <1>10, <2>1, SyncBegins
  <1>11. CASE Start \/ ParentReads
    <2>1. worktree' = worktree /\ goal' = goal
      BY <1>11 DEF Start, ParentReads
    <2>2. Status' = Status
      BY <1>11, ReadsFile DEF LedgerInv
    <2> QED
      BY <1>0, <1>11, <2>1, <2>2, ReadsKeeps
  <1>12. CASE Crash
    <2>1. worktree' = worktree /\ goal' = goal
      BY <1>12 DEF Crash
    <2>2. Status' = Status \/ \E c : Lands(c)
      BY <1>12, CrashFile DEF LedgerInv
    <2> QED
      BY <1>0, <1>12, <2>1, <2>2, CrashKeeps
  <1>13. CASE UNCHANGED vars
    <2>1. UNCHANGED <<file, mem, up, job, todo, appending, artifacts, worktree, goal, synced>>
      BY <1>13 DEF vars, disk, store
    <2>2. Status' = Status /\ Pending' = Pending /\ Unfinished' = Unfinished
      BY <2>1 DEF Status, Pending, Unfinished
    <2>3. FileInv'
      BY <2>1, <2>2 DEF LedgerInv, FileInv
    <2>4. ArtifactInv'
      BY <2>1 DEF LedgerInv, ArtifactInv
    <2>5. PendingInv' /\ SyncedInv'
      BY <2>1, <2>2 DEF LedgerInv, PendingInv, SyncedInv, Present
    <2>6. JobInv'
      <3>1. \A ids \in SUBSET Ids, as \in {"stale", "superseded"} :
               Retires(ids, as) => Retires(ids, as)'
        BY <2>2 DEF Retires
      <3> QED
        BY <2>1, <3>1, SameJob DEF LedgerInv
    <2> QED
      BY <1>0, <2>1, <2>2, <2>3, <2>4, <2>5, <2>6, KeepsNow
  <1> QED
    BY <1>1, <1>2, <1>3, <1>4, <1>6, <1>7, <1>8, <1>9, <1>10, <1>11, <1>12,
       <1>13 DEF Next

LEMMA InitKeeps ==
  ASSUME Init
  PROVE  LedgerInv /\ worktree \in Versions
         /\ \A i \in Ids : Status[i] = "none"
  <1>1. /\ file = <<>> /\ ~up /\ job = <<>> /\ todo = {} /\ ~appending
        /\ worktree = Base /\ ~synced
    BY DEF Init
  <1>2. Unfinished = {} /\ Pending = {}
    BY <1>1 DEF Pending, Unfinished
  <1>3. FileInv
    BY <1>1 DEF FileInv
  <1>4. ArtifactInv /\ PendingInv /\ SyncedInv /\ JobInv
    BY <1>1, <1>2 DEF ArtifactInv, PendingInv, SyncedInv, JobInv
  <1>5. \A i \in Ids : Status[i] = "none"
    <2>1. \A i : Lines(file, i) = {}
      BY <1>1 DEF Lines
    <2> QED
      BY <2>1, ReplayAt DEF Status
  <1> QED
    BY <1>1, <1>3, <1>4, <1>5, LedgerAssumption DEF LedgerInv

-----------------------------------------------------------------------------
(* The theorems.                                                           *)

LEMMA Invariance ==
  ASSUME "partial" \notin Faults
  PROVE  Spec => [](LedgerInv /\ worktree \in Versions)
  <1>1. Init => LedgerInv /\ worktree \in Versions
    BY InitKeeps
  <1>2. LedgerInv /\ worktree \in Versions /\ [Next]_vars
          => (LedgerInv /\ worktree \in Versions)'
    BY NextKeeps
  <1> QED
    BY <1>1, <1>2, PTL DEF Spec

(* Whatever crashes and appends fail, what the tools act on is what a      *)
(* restart would rebuild from evidence.jsonl, which can always be read.    *)
THEOREM RestartCorrectness ==
  ASSUME "partial" \notin Faults
  PROVE  Spec => []RestartKeepsLedger
  <1>1. LedgerInv => RestartKeepsLedger
    <2> SUFFICES ASSUME LedgerInv, up, ~appending
                 PROVE  Readable(file) /\ Replay(file) = mem
      BY DEF RestartKeepsLedger
    <2>1. /\ \A k \in 1 .. Len(file) : file[k].end = "whole"
          /\ mem = Status /\ Len(file) \in Nat
      BY DEF LedgerInv, FileInv
    <2>2. ASSUME NEW k \in 1 .. Len(file) PROVE ~Broken(file, k)
      <3>1. k > 1 => k - 1 \in 1 .. Len(file)
        BY <2>1
      <3> QED
        BY <2>1, <3>1 DEF Broken
    <2> QED
      BY <2>1, <2>2 DEF Readable, Status
  <1> QED
    BY <1>1, Invariance, PTL

(* No crash, failed append or order of the tools puts a record of an       *)
(* artifact in the ledger before the artifact is on disk.                  *)
THEOREM ArtifactCorrectness ==
  ASSUME "partial" \notin Faults
  PROVE  Spec => []ArtifactFirst
  <1>1. LedgerInv => ArtifactFirst
    BY DEF LedgerInv, ArtifactInv, ArtifactFirst
  <1> QED
    BY <1>1, Invariance, PTL

(* From the end of an invalidation to the next write nothing the tools see *)
(* as active speaks of another content of the worktree.                    *)
THEOREM OutdatedCorrectness ==
  ASSUME "partial" \notin Faults
  PROVE  Spec => []NothingOutdated
  <1>1. LedgerInv => NothingOutdated
    BY DEF LedgerInv, FileInv, SyncedInv, Present, NothingOutdated, ActiveIds,
           Active
  <1> QED
    BY <1>1, Invariance, PTL

\* What is promised of a landing: a capture of a record that is not active,
\* the same record once more, or the retirement of an active one.
LEMMA LandingPromised ==
  ASSUME LedgerInv, NEW c, Lands(c), goal' = goal
  PROVE  [Promise!PromiseNext]_(Promise!promiseVars)
  <1>1. /\ c.id \in Ids /\ c.status \in {"active", "stale", "superseded"}
        /\ Status' = [Status EXCEPT ![c.id] = c.status]
    BY PendingIsChange DEF Lands, LedgerInv, Change
  <1>2. CASE c.status # "active"
    <2>1. Status[c.id] = "active"
      BY <1>2 DEF LedgerInv, PendingInv, Lands
    <2>2. Promise!Retire(c.id, c.status)
      BY <1>1, <2>1 DEF Promise!Retire, Promise!Active, Status
    <2> QED
      BY <1>1, <1>2, <2>2 DEF Promise!PromiseNext
  <1>3. CASE c.status = "active" /\ Status[c.id] # "active"
    <2>1. c.id \in Reproductions => \A r \in Reproductions : Status[r] # "active"
      BY <1>3 DEF LedgerInv, PendingInv, Lands
    <2>2. Promise!Capture(c.id)
      BY <1>1, <1>3, <2>1 DEF Promise!Capture, Promise!Active, Status
    <2> QED
      BY <1>1, <2>2 DEF Promise!PromiseNext
  <1>4. CASE c.status = "active" /\ Status[c.id] = "active"
    <2>1. \A i \in Ids : Status'[i] = Status[i]
      BY <1>4, StatusAfter
    <2>2. Status' = Status
      <3>1. \A i \in Ids : Replay(file')[i] = Replay(file)[i]
        BY <2>1 DEF Status
      <3> QED
        BY <3>1, ReplayEqual DEF Status
    <2> QED
      BY <2>2 DEF Promise!promiseVars, Status
  <1> QED
    BY <1>2, <1>3, <1>4

(* The ledger implements its promise: through the file, appends that land, *)
(* before or by a crash, capture and retire records one at a time, and a   *)
(* goal begins when no record is active.  Nothing else is seen at all.     *)
THEOREM LedgerImplementsPromise ==
  ASSUME "partial" \notin Faults
  PROVE  Spec => LedgerKeepsPromise
  <1>1. Init => Promise!PromiseInit
    <2> SUFFICES ASSUME Init PROVE Promise!PromiseInit
      OBVIOUS
    <2>1. Status = [i \in Ids |-> Status[i]]
      BY ReplayIsFunction DEF Status
    <2>2. Status = [i \in Ids |-> "none"]
      BY <2>1, InitKeeps
    <2>3. goal = 0
      BY DEF Init
    <2> QED
      BY <2>2, <2>3 DEF Promise!PromiseInit, Status
  <1>2. LedgerInv /\ worktree \in Versions /\ [Next]_vars
          => [Promise!PromiseNext]_(Promise!promiseVars)
    <2> SUFFICES ASSUME LedgerInv, worktree \in Versions, [Next]_vars
                 PROVE  [Promise!PromiseNext]_(Promise!promiseVars)
      OBVIOUS
    <2>1. SeenStep
      BY NextKeeps
    <2>2. CASE Status' = Status /\ goal' = goal
      BY <2>2 DEF Promise!promiseVars, Status
    <2>3. CASE (\E c : Lands(c)) /\ goal' = goal
      BY <2>3, LandingPromised
    <2>4. CASE /\ Status' = Status /\ goal' = goal + 1
               /\ \A i \in Ids : Status[i] # "active"
      <3>1. Promise!NewGoal
        BY <2>4 DEF Promise!NewGoal, Promise!Active, Status
      <3> QED
        BY <3>1 DEF Promise!PromiseNext
    <2> QED
      BY <2>1, <2>2, <2>3, <2>4 DEF SeenStep
  <1> QED
    BY <1>1, <1>2, Invariance, PTL DEF Spec, LedgerKeepsPromise, Promise!PromiseSpec

\* By the promise alone every status is one of four.
LEMMA PromiseTypes == Promise!PromiseSpec => []Promise!PromiseTypeOK
  <1>1. Promise!PromiseInit => Promise!PromiseTypeOK
    BY DEF Promise!PromiseInit, Promise!PromiseTypeOK, Promise!Statuses
  <1>2. Promise!PromiseTypeOK /\ [Promise!PromiseNext]_(Promise!promiseVars)
          => Promise!PromiseTypeOK'
    <2> SUFFICES ASSUME Promise!PromiseTypeOK,
                        [Promise!PromiseNext]_(Promise!promiseVars)
                 PROVE  Promise!PromiseTypeOK'
      OBVIOUS
    <2> USE DEF Promise!PromiseTypeOK, Promise!Statuses
    <2>1. ASSUME NEW i \in Ids, Promise!Capture(i)
          PROVE  Promise!PromiseTypeOK'
      BY <2>1 DEF Promise!Capture
    <2>2. ASSUME NEW i \in Ids, NEW as \in {"stale", "superseded"},
                 Promise!Retire(i, as)
          PROVE  Promise!PromiseTypeOK'
      BY <2>2 DEF Promise!Retire
    <2>3. CASE Promise!NewGoal
      BY <2>3 DEF Promise!NewGoal
    <2>4. CASE UNCHANGED Promise!promiseVars
      BY <2>4 DEF Promise!promiseVars
    <2> QED
      BY <2>1, <2>2, <2>3, <2>4 DEF Promise!PromiseNext
  <1> QED
    BY <1>1, <1>2, PTL DEF Promise!PromiseSpec

\* Whoever keeps the promise has at most one active reproduction.
LEMMA OnlyOneReproduction == Promise!PromiseSpec => []Promise!OneReproduction
  <1>1. Promise!PromiseInit => Promise!OneReproduction
    BY DEF Promise!PromiseInit, Promise!OneReproduction, Promise!Active,
           Reproductions
  <1>2. Promise!PromiseTypeOK /\ Promise!OneReproduction
            /\ [Promise!PromiseNext]_(Promise!promiseVars)
          => Promise!OneReproduction'
    <2> SUFFICES ASSUME Promise!PromiseTypeOK, Promise!OneReproduction,
                        [Promise!PromiseNext]_(Promise!promiseVars)
                 PROVE  Promise!OneReproduction'
      OBVIOUS
    <2>0. Reproductions \subseteq Ids
      BY DEF Reproductions
    <2> USE DEF Promise!PromiseTypeOK, Promise!OneReproduction, Promise!Active
    <2>1. ASSUME NEW i \in Ids, Promise!Capture(i)
          PROVE  Promise!OneReproduction'
      BY <2>0, <2>1 DEF Promise!Capture
    <2>2. ASSUME NEW i \in Ids, NEW as \in {"stale", "superseded"},
                 Promise!Retire(i, as)
          PROVE  Promise!OneReproduction'
      BY <2>0, <2>2 DEF Promise!Retire
    <2>3. CASE Promise!NewGoal
      BY <2>3 DEF Promise!NewGoal
    <2>4. CASE UNCHANGED Promise!promiseVars
      BY <2>4 DEF Promise!promiseVars
    <2> QED
      BY <2>1, <2>2, <2>3, <2>4 DEF Promise!PromiseNext
  <1> QED
    BY <1>1, <1>2, PromiseTypes, PTL DEF Promise!PromiseSpec

(* So the reproduction a verification replays is the only active one, even *)
(* in a ledger rebuilt after a crash between the records that replace it.  *)
THEOREM OneReproductionInFile ==
  ASSUME "partial" \notin Faults
  PROVE  Spec => []Promise!OneReproduction
  BY LedgerImplementsPromise, OnlyOneReproduction, PTL DEF LedgerKeepsPromise
=============================================================================
