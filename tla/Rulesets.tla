------------------------------ MODULE Rulesets ------------------------------
(***************************************************************************)
(* The ruleset tables and the endpoint that activates a new version (POST  *)
(* /api/v1/rulesets in Program.cs of the admin API).  A request reads the  *)
(* active versions, then saves everything in one transaction: the versions *)
(* it read become inactive, its own is inserted active with its rules.     *)
(* Nothing keeps two requests apart but the primary key on the version.    *)
(***************************************************************************)
EXTENDS Integers

CONSTANTS
    Admins,         \* requests in flight together
    Versions,       \* names of rulesets
    InitialVersion, \* the one the seeder made
    Books,          \* what a ruleset may say: parameters by rule code
    InitialBook,
    NoBook,         \* a version without rows
    Proposals,      \* what requests ask for: records [version, book]
    MaxPosts        \* bound: requests

ASSUME RulesetsAssumption ==
    /\ InitialVersion \in Versions
    /\ InitialBook \in Books
    /\ NoBook \notin Books
    /\ Proposals \subseteq [version : Versions, book : Books]
    /\ MaxPosts \in Nat

VARIABLES
    active,         \* versions with IsActive set
    createdAt,      \* CreatedAt of a version that has a row
    rules,          \* rules[v]: the rows of version v, or NoBook
    admin,          \* admin[a]: the request a is making
    clock,
    posts

tables == <<active, createdAt, rules>>
rulesetVars == <<tables, admin, clock, posts>>

Post == [step : {"idle", "stamp", "save"}, version : Versions, book : Books,
         seen : SUBSET Versions, at : Nat]
NoPost == [step |-> "idle", version |-> InitialVersion, book |-> InitialBook, seen |-> {}, at |-> 0]

RulesetsTypeOK ==
    /\ active \subseteq Versions
    /\ createdAt \in [Versions -> 0 .. clock]
    /\ rules \in [Versions -> Books \union {NoBook}]
    /\ admin \in [Admins -> Post]
    /\ clock \in Nat
    /\ posts \in 0 .. MaxPosts

RulesetsInit ==
    /\ active = {InitialVersion}
    /\ createdAt = [v \in Versions |-> 0]
    /\ rules = [v \in Versions |-> IF v = InitialVersion THEN InitialBook ELSE NoBook]
    /\ admin = [a \in Admins |-> NoPost]
    /\ clock = 0
    /\ posts = 0

At(a, step) == admin[a].step = step
Over(a) == admin' = [admin EXCEPT ![a] = NoPost]

\* The versions GetActiveAsync can find: the newest of the active ones.
Newest == {v \in active : \A u \in active : createdAt[u] <= createdAt[v]}

-----------------------------------------------------------------------------
(* A faulty variant, for checking that the properties notice it; it is not *)
(* part of the specification.                                              *)

\* The old versions are deactivated by one UPDATE of all active ones when the
\* request saves, not by what it read.
InsertReplacingAll(p) ==
    /\ rules[p.version] = NoBook
    /\ active' = {p.version}
    /\ createdAt' = [createdAt EXCEPT ![p.version] = p.at]
    /\ rules' = [rules EXCEPT ![p.version] = p.book]

-----------------------------------------------------------------------------
(* POST /api/v1/rulesets.                                                  *)

\* The active versions are read, tracked by the request.
ReadActive(a, p) ==
    /\ At(a, "idle")
    /\ posts < MaxPosts
    /\ posts' = posts + 1
    /\ admin' = [admin EXCEPT ![a] = [step |-> "stamp", version |-> p.version, book |-> p.book,
                                      seen |-> active, at |-> 0]]
    /\ UNCHANGED <<tables, clock>>

\* The new row is made in memory; two requests may read the same time.
Stamp(a) ==
    /\ At(a, "stamp")
    /\ clock' \in {clock, clock + 1}
    /\ admin' = [admin EXCEPT ![a].step = "save", ![a].at = clock']
    /\ UNCHANGED <<tables, posts>>

Insert(p) ==
    /\ rules[p.version] = NoBook
    /\ active' = (active \ p.seen) \union {p.version}
    /\ createdAt' = [createdAt EXCEPT ![p.version] = p.at]
    /\ rules' = [rules EXCEPT ![p.version] = p.book]

\* SaveChangesAsync commits all of it.
Save(a) ==
    /\ At(a, "save")
    /\ Insert(admin[a])
    /\ Over(a)
    /\ UNCHANGED <<clock, posts>>

\* It throws and all of it is rolled back: the version is there already, it lists
\* a rule twice, or PostgreSQL fails.  (With only the acknowledgement lost, the
\* step is Save.)
SaveFails(a) ==
    /\ At(a, "save")
    /\ Over(a)
    /\ UNCHANGED <<tables, clock, posts>>

RulesetsNext ==
    \E a \in Admins :
        \/ \E p \in Proposals : ReadActive(a, p)
        \/ Stamp(a) \/ Save(a) \/ SaveFails(a)

-----------------------------------------------------------------------------
(* Properties.                                                             *)

\* There is always a version to score with, whatever requests cross, and the one
\* in force is never older than the one before it: a version that was replaced
\* does not come back when a slower request deactivates its successor.
ServedNeverGoesBack ==
    [][/\ active' # {}
       /\ \A u \in active : \E v \in active' : createdAt[u] <= createdAt'[v]]_rulesetVars
=============================================================================
