----------------------------- MODULE PagedReads -----------------------------
(***************************************************************************)
(* The read connectors (jira, github, bitbucket, confluence, teams,        *)
(* outlook, onenote, microsoft, reddit) over http.py: reads that need      *)
(* several requests to a provider that changes between them, under one     *)
(* request budget for the read and for the re-read that verifies it.       *)
(* A provider's list is a sequence of items, newest first; an item that    *)
(* changes becomes a new item.  A cursor or next link is a position in the *)
(* list as it is when the link is followed.                                *)
(***************************************************************************)
EXTENDS Integers, Sequences, FiniteSets, SequencesExt

CONSTANTS Family,        \* the reads of this instance, a field of KindsOf
          Lists,         \* commit -> the possible initial lists (sequences of item numbers)
          Matching,      \* item numbers a local text filter keeps
          Limits, ScanLimit,   \* item limits asked for; messages scanned when filtering
          PageCap,       \* most items asked for in one request (50, 100 or 200 in the code)
          ServerCaps,    \* most items the provider serves in one answer
          MaxPages, RetryAttempts,
          Hollow,        \* the provider may serve an empty page with a next link
          Stray,         \* a next link may lead to another collection
          MaxChanges     \* bound of the model: changes at the provider

\* What the constants are.
PagedAssumption ==
    /\ PageCap \in Nat \ {0} /\ MaxPages \in Nat \ {0} /\ Limits \subseteq Nat \ {0}
    /\ ServerCaps \subseteq Nat \ {0} /\ RetryAttempts \in Nat /\ ScanLimit \in Nat

VARIABLES world,     \* the provider: [head, lists, det, parts]
          seen,      \* ghost: every world since the read began
          left,      \* ghost: an item left a list meanwhile
          hollow,    \* ghost: an empty page with a next link was served
          changes,
          read       \* the read in progress

pagedVars == <<world, seen, left, hollow, changes, read>>

-----------------------------------------------------------------------------
(* The reads: how each pages, what it reads first, and what it insists on.  *)
Listing == [style |-> "link", base |-> "own", strict |-> FALSE, exact |-> FALSE, same |-> FALSE,
            each |-> FALSE, scan |-> FALSE, second |-> FALSE, check |-> "none"]

GitHubRepositories == [Listing EXCEPT !.style = "number"]
GitHubPublicRepositories == GitHubRepositories
GitHubPullRequests == GitHubRepositories
GitHubChecks == [GitHubRepositories EXCEPT !.base = "ref", !.check = "end"]
JiraSearchCloud == [Listing EXCEPT !.style = "token"]
JiraSearchDataCenter == [Listing EXCEPT !.style = "total"]
RedditListing == [Listing EXCEPT !.style = "token"]
BitbucketPublicRepositories == [Listing EXCEPT !.exact = TRUE]
BitbucketPullsCloud == [Listing EXCEPT !.each = TRUE]
BitbucketPullsDataCenter == [BitbucketPullsCloud EXCEPT !.style = "offset"]
BitbucketStatusCloud == [Listing EXCEPT !.base = "pull", !.strict = TRUE, !.same = TRUE, !.check = "first"]
BitbucketStatusDataCenter == [BitbucketStatusCloud EXCEPT !.style = "offset"]
BitbucketDiffCloud == [BitbucketStatusCloud EXCEPT !.exact = TRUE]
BitbucketDiffDataCenter == [BitbucketStatusCloud EXCEPT !.style = "whole"]
ConfluenceSearch == [Listing EXCEPT !.each = TRUE]
TeamsChats == Listing
TeamsChannels == Listing
TeamsReplies == Listing
OutlookMessages == Listing
OutlookAttachments == Listing
MicrosoftIdentities == Listing
SharePointListing == Listing
OneNoteCollections == Listing
TeamsMessages == [Listing EXCEPT !.scan = TRUE]
TeamsChannelMessages == TeamsMessages
OneNotePages == TeamsMessages

Resource == [Listing EXCEPT !.style = "one", !.check = "first"]
JiraIssue == Resource
TeamsChatMessage == Resource
TeamsChannelMessage == Resource
OutlookMessage == Resource
SharePointSite == Resource
GitHubRepository == [Resource EXCEPT !.same = TRUE]
GitHubPullRequest == GitHubRepository
BitbucketRepository == GitHubRepository
BitbucketPullRequest == GitHubRepository
ConfluencePage == GitHubRepository
OneNotePage == [Resource EXCEPT !.second = TRUE]
OutlookAttachment == [OneNotePage EXCEPT !.check = "end"]
JiraReviewContext == [OutlookAttachment EXCEPT !.same = TRUE]
SharePointText == [OneNotePage EXCEPT !.check = "none"]

\* Lists; resources and lists with a detail per item; lists of a commit; and the reads that
\* insist on the collection or the identity asked for.
KindsOf ==
    [lists |-> {GitHubRepositories, GitHubPublicRepositories, GitHubPullRequests, JiraSearchCloud,
                JiraSearchDataCenter, RedditListing, BitbucketPublicRepositories, TeamsChats, TeamsChannels,
                TeamsReplies, OutlookMessages, OutlookAttachments, MicrosoftIdentities, SharePointListing,
                OneNoteCollections, TeamsMessages, TeamsChannelMessages, OneNotePages},
     combined |-> {BitbucketPullsCloud, BitbucketPullsDataCenter, ConfluenceSearch, JiraIssue,
                   TeamsChatMessage, TeamsChannelMessage, OutlookMessage, SharePointSite, GitHubRepository,
                   GitHubPullRequest, BitbucketRepository, BitbucketPullRequest, ConfluencePage,
                   OneNotePage, OutlookAttachment, JiraReviewContext, SharePointText},
     commits |-> {GitHubChecks, BitbucketStatusCloud, BitbucketStatusDataCenter, BitbucketDiffCloud,
                  BitbucketDiffDataCenter},
     exact |-> {BitbucketPublicRepositories, BitbucketDiffCloud, GitHubRepository, GitHubPullRequest,
                BitbucketRepository, BitbucketPullRequest, ConfluencePage, JiraReviewContext}]

-----------------------------------------------------------------------------
Idle == [kind |-> Listing, limit |-> 0, expected |-> -1, phase |-> "idle", pc |-> "end", pages |-> 0,
         got |-> <<>>, at |-> 0, size |-> 0, more |-> FALSE, stray |-> FALSE, used |-> 0, tries |-> 0,
         commit |-> 0, detail |-> <<>>, parts |-> <<>>, result |-> <<>>]

PagedInit ==
    /\ world \in {[head |-> 0, parts |-> <<0, 0>>, det |-> [n \in 1..4 |-> 0],
                   lists |-> [c \in DOMAIN Lists |-> [i \in DOMAIN f[c] |-> [n |-> f[c][i], c |-> c]]]] :
                      f \in {g \in [DOMAIN Lists -> UNION {Lists[c] : c \in DOMAIN Lists}] :
                                \A c \in DOMAIN Lists : g[c] \in Lists[c]}}
    /\ seen = {} /\ left = FALSE /\ hollow = FALSE /\ changes = 0 /\ read = Idle

Least(a, b) == IF a < b THEN a ELSE b
Most(k, limit) == IF k.scan THEN IF limit < ScanLimit THEN ScanLimit ELSE limit ELSE limit
Cut(s, n) == SubSeq(s, 1, Least(n, Len(s)))
Kept(k, s) == IF k.scan THEN SelectSeq(s, LAMBDA x : x.n \in Matching) ELSE s
DetailOf(w, x) == IF x.n \in DOMAIN w.det THEN w.det[x.n] ELSE 0

\* The retrieved evidence: the digest covers all of it.
Evidence(r) == [items |-> r.got, detail |-> r.detail, parts |-> r.parts, commit |-> r.commit]

\* What version enforce_expected_version compares.
VersionOf(r) ==
    CASE r.kind.style = "one" -> r.parts[1]
      [] r.kind.base = "pull" -> r.commit
      [] r.kind.base = "ref" -> IF r.got = <<>> THEN -2 ELSE r.got[1].c
      [] OTHER -> -1
VersionHolds(r) == r.expected \in {-1, VersionOf(r)}

Fail(r) == [r EXCEPT !.phase = "failed", !.pc = "end"]

-----------------------------------------------------------------------------
Start(k) ==
    /\ read.phase = "idle"
    /\ \E l \in Limits, v \in {-1, 0} :
          /\ v = 0 => k.check # "none"
          /\ read' = [Idle EXCEPT !.kind = k, !.limit = l, !.expected = v, !.phase = "execute",
                                  !.pc = IF k.base = "pull" \/ k.style = "one" THEN "first" ELSE "page"]
    /\ seen' = {world} /\ left' = FALSE /\ hollow' = FALSE
    /\ UNCHANGED <<world, changes>>

\* HttpActionBudget.reserve_request: every attempt of the read and of its verification.
Reserve(r) == r.used < MaxPages

\* What is left to do once the list, or the two parts, are read.
Finished(r) == IF r.kind.check = "end" /\ ~VersionHolds(r) THEN Fail(r) ELSE [r EXCEPT !.pc = "done"]

\* The list is cut to what was asked for; check runs must prove one commit.
ListRead(r) ==
    LET cut == [r EXCEPT !.got = Cut(Kept(r.kind, Cut(r.got, Most(r.kind, r.limit))), r.limit), !.pc = "each"]
    IN  IF r.kind.base = "ref" /\ Cardinality({x.c : x \in Range(cut.got)}) > 1 THEN Fail(r)
        ELSE IF r.kind.each /\ cut.got # <<>> THEN cut ELSE Finished(cut)

\* The head of the loop over pages: its range, and the remaining items.
Another(r) == r.pages < MaxPages /\ Len(r.got) < Most(r.kind, r.limit)

\* The resource returned is not the one asked for.
OtherIdentity(r, other) == r.kind.same /\ other

\* The first request of a read of a pull request's statuses or changes, or of a resource.
ReadFirst == \E other \in {FALSE, Stray} :
    LET got == IF read.kind.style = "one" THEN [read EXCEPT !.parts = <<IF other THEN -1 ELSE world.parts[1]>>]
               ELSE [read EXCEPT !.commit = IF other THEN -1 ELSE world.head]
        r == [got EXCEPT !.used = @ + 1, !.tries = 0]
    IN  /\ read.pc = "first"
        /\ read' = IF ~Reserve(read) \/ OtherIdentity(read, other) THEN Fail(read)
                   ELSE IF r.kind.check = "first" /\ ~VersionHolds(r) THEN Fail(r)
                   ELSE IF r.kind.second THEN [r EXCEPT !.pc = "second"]
                   ELSE IF r.kind.style = "one" THEN Finished(r) ELSE [r EXCEPT !.pc = "page"]
        /\ UNCHANGED <<world, seen, left, hollow, changes>>

ReadSecond ==
    /\ read.pc = "second"
    /\ read' = IF ~Reserve(read) THEN Fail(read)
               ELSE Finished([read EXCEPT !.parts = Append(@, world.parts[2]), !.used = @ + 1, !.tries = 0])
    /\ UNCHANGED <<world, seen, left, hollow, changes>>

\* Which list a page comes from.
Collection(r) ==
    IF r.stray \/ r.commit = -1 THEN <<[n |-> 0, c |-> -1]>>
    ELSE world.lists[CASE r.kind.base = "own" -> 0 [] r.kind.base = "ref" -> world.head [] OTHER -> r.commit]

\* The page size of the request: a next link keeps the size it was made for.
Asked(r) ==
    IF r.kind.style = "link" /\ r.pages > 0 THEN r.size
    ELSE IF r.kind.style = "whole" THEN r.limit - Len(r.got)
    ELSE Least(Most(r.kind, r.limit) - Len(r.got), PageCap)

\* The position of the page in the list.
From(r, size) ==
    IF r.stray THEN 0 ELSE IF r.kind.style = "number" THEN r.pages * size ELSE r.at

\* Why a strict read refuses the page it got.
TooMuch(r, page) ==
    \/ Len(r.got) > r.limit
    \/ /\ r.more
       /\ \/ page = <<>>
          \/ Len(r.got) >= r.limit
          \/ r.kind.style = "whole"
          \/ r.pages = MaxPages /\ ~r.kind.exact

\* The exact path every next link of the listing must keep.
LeavesPath(r) == r.kind.exact /\ r.stray

LastPage(r, page, size) ==
    CASE r.kind.style = "number" -> Len(page) < size
      [] r.kind.style = "token" -> ~r.more
      [] OTHER -> page = <<>> \/ ~r.more

ReadPage ==
    /\ read.pc = "page"
    /\ \/ /\ ~Another(read)
          /\ read' = ListRead(read) /\ UNCHANGED hollow
       \/ /\ Another(read) /\ ~Reserve(read)
          /\ read' = Fail(read) /\ UNCHANGED hollow
       \/ /\ Another(read) /\ Reserve(read)
          /\ \E cap \in ServerCaps, empty \in {FALSE, Hollow}, stray \in {FALSE, Stray} :
                LET size == Asked(read)
                    from == From(read, size)
                    list == Collection(read)
                    most == IF read.kind.style \in {"number", "whole"} THEN size ELSE Least(cap, size)
                    page == IF empty THEN <<>> ELSE SubSeq(list, from + 1, Least(from + most, Len(list)))
                    r == [read EXCEPT !.got = @ \o page, !.pages = @ + 1, !.used = @ + 1, !.tries = 0,
                                      !.at = from + Len(page), !.size = size,
                                      !.more = from + Len(page) < Len(list),
                                      !.stray = read.kind.style = "link" /\ stray /\ from + Len(page) < Len(list)]
                IN  /\ empty => from < Len(list) /\ read.kind.style \in {"link", "token", "offset"}
                    /\ hollow' = (hollow \/ empty)
                    /\ read' = IF (r.kind.strict /\ TooMuch(r, page)) \/ LeavesPath(r) THEN Fail(r)
                               ELSE IF LastPage(r, page, size) THEN ListRead(r) ELSE r
    /\ UNCHANGED <<world, seen, left, changes>>

\* The statuses, the changes or the body of each listed item.
ReadEach ==
    LET r == [read EXCEPT !.detail = Append(@, DetailOf(world, read.got[Len(@) + 1])), !.used = @ + 1, !.tries = 0]
    IN  /\ read.pc = "each"
        /\ read' = IF ~Reserve(read) THEN Fail(read)
                   ELSE IF Len(r.detail) = Len(r.got) THEN Finished(r) ELSE r
        /\ UNCHANGED <<world, seen, left, hollow, changes>>

\* A retryable status: the attempt is counted, and the request sent again.
Unavailable ==
    /\ read.pc \in {"first", "second", "each", "page"} /\ (read.pc = "page" => Another(read))
    /\ Reserve(read)
    /\ read' = IF read.tries < RetryAttempts THEN [read EXCEPT !.used = @ + 1, !.tries = @ + 1] ELSE Fail(read)
    /\ UNCHANGED <<world, seen, left, hollow, changes>>

\* execute returns; verify reads again under the same budget.
Returned ==
    /\ read.phase = "execute" /\ read.pc = "done"
    /\ read' = [Idle EXCEPT !.kind = read.kind, !.limit = read.limit, !.expected = read.expected,
                            !.used = read.used, !.phase = "verify", !.result = <<Evidence(read)>>,
                            !.pc = IF read.kind.base = "pull" \/ read.kind.style = "one" THEN "first" ELSE "page"]
    /\ UNCHANGED <<world, seen, left, hollow, changes>>

\* Faulty variant: verification compares how much was read.
SameAmount(a, b) == Len(a.items) = Len(b.items) /\ a.commit = b.commit
SameEvidence(a, b) == a = b

Verified ==
    /\ read.phase = "verify" /\ read.pc = "done"
    /\ read' = IF SameEvidence(read.result[1], Evidence(read)) THEN [read EXCEPT !.phase = "verified", !.pc = "end"]
               ELSE Fail(read)
    /\ UNCHANGED <<world, seen, left, hollow, changes>>

-----------------------------------------------------------------------------
(* The provider.                                                            *)
Relevant(w) ==
    /\ read.pc # "end" /\ changes < MaxChanges
    /\ world' = w /\ seen' = seen \cup {w} /\ changes' = changes + 1
    /\ UNCHANGED <<hollow, read>>

Fresh(c) == [n |-> 10 + changes, c |-> c]
Enter(c) ==
    /\ read.kind.style # "one"
    /\ \/ Relevant([world EXCEPT !.lists[c] = <<Fresh(c)>> \o @])
       \/ Relevant([world EXCEPT !.lists[c] = Append(@, Fresh(c))])
    /\ UNCHANGED left
Touch(c, i) ==
    /\ read.kind.style # "one" /\ i \in DOMAIN world.lists[c]
    /\ Relevant([world EXCEPT !.lists[c] = <<Fresh(c)>> \o RemoveAt(@, i)])
    /\ UNCHANGED left
Leave(c, i) ==
    /\ read.kind.style # "one" /\ i \in DOMAIN world.lists[c]
    /\ Relevant([world EXCEPT !.lists[c] = RemoveAt(@, i)])
    /\ left' = TRUE
Push ==
    /\ read.kind.base # "own" /\ world.head + 1 \in DOMAIN Lists
    /\ Relevant([world EXCEPT !.head = @ + 1]) /\ UNCHANGED left
EditDetail(n) ==
    /\ read.kind.each
    /\ Relevant([world EXCEPT !.det[n] = @ + 1]) /\ UNCHANGED left
EditResource ==
    /\ read.kind.style = "one"
    /\ \/ Relevant([world EXCEPT !.parts = <<@[1] + 1, @[2] + 1>>])
       \/ Relevant([world EXCEPT !.parts[2] = @ + 1])
    /\ UNCHANGED left

Read == ReadFirst \/ ReadSecond \/ ReadPage \/ ReadEach \/ Unavailable \/ Returned \/ Verified
Provider ==
    \/ \E c \in DOMAIN Lists : Enter(c) \/ \E i \in 1..4 : Touch(c, i) \/ Leave(c, i)
    \/ Push \/ EditResource \/ \E n \in 1..4 : EditDetail(n)
PagedNext == (\E k \in KindsOf[Family] : Start(k)) \/ Read \/ Provider
PagedSpec == PagedInit /\ [][PagedNext]_pagedVars

-----------------------------------------------------------------------------
PagedTypeOK ==
    /\ read.phase \in {"idle", "execute", "verify", "verified", "failed"}
    /\ read.pc \in {"first", "second", "page", "each", "done", "end"}
    /\ read.used \in 0..MaxPages /\ read.pages \in 0..MaxPages /\ read.tries \in 0..RetryAttempts
    /\ Len(read.got) <= MaxPages * (PageCap + Most(read.kind, read.limit)) /\ left \in BOOLEAN /\ hollow \in BOOLEAN
    /\ world \in seen \cup {world} /\ changes \in 0..MaxChanges

\* What a read is for: the evidence one look at the provider would give.
Look(w, r) ==
    LET c == CASE r.kind.base = "own" -> 0 [] OTHER -> w.head
        all == IF r.kind.style = "one" THEN <<>>
               ELSE Cut(Kept(r.kind, Cut(w.lists[c], Most(r.kind, r.limit))), r.limit)
    IN  [items |-> all,
         detail |-> IF r.kind.each THEN [i \in DOMAIN all |-> DetailOf(w, all[i])] ELSE <<>>,
         parts |-> IF r.kind.style # "one" THEN <<>> ELSE IF r.kind.second THEN w.parts ELSE <<w.parts[1]>>,
         commit |-> IF r.kind.base = "pull" THEN w.head ELSE 0]

\* The page numbers of a read count pages of different sizes: the limit is over the page size and
\* no multiple of it, so the last page asked for is smaller and starts elsewhere.
PagesShift(r) == r.kind.style = "number" /\ r.limit > PageCap /\ r.limit % PageCap # 0

\* A read that several requests put together, and that the second read confirmed, is what the
\* provider held at one moment of the read: no page is skipped or repeated because the list moved,
\* and a version never goes with the content of another.  The exceptions: an item left the list, a
\* provider's empty page with a next link ended a list that is not strict, and a GitHub list was
\* asked for with a limit over the page size that is no multiple of it (github.py: the page number
\* goes with a size that shrinks on the last page).
VerifiedIsASnapshot ==
    read.phase = "verified" /\ ~left /\ ~Stray /\ ~PagesShift(read)
            /\ (hollow => read.kind.strict \/ read.kind.style = "token")
        => \E w \in seen : read.result[1] = Look(w, read)

\* A strict read (a pull request's build statuses, the changes of a commit range) has everything or
\* is refused: with nothing changing meanwhile, what execute returns is the whole list.
StrictIsWhole ==
    \A w \in seen :
        read.phase \in {"verify", "verified"} /\ read.kind.strict /\ seen = {w} /\ ~Stray
            => read.result[1].items = w.lists[read.result[1].commit]

\* Whatever changes meanwhile, a strict read that was verified lacks no status or change that was
\* there all the time.
StrictMissesNothing ==
    read.phase = "verified" /\ read.kind.strict /\ ~Stray
        => \A x \in Range(world.lists[read.commit]) :
              (\A w \in seen : x \in Range(w.lists[read.commit])) => x \in Range(read.result[1].items)

\* A read planned for a version gives, when verified, what the provider held at that version, with
\* the exceptions of VerifiedIsASnapshot.
ExpectedVersionHolds ==
    read.phase = "verified" /\ read.expected = 0 /\ ~left /\ ~Stray /\ (hollow => read.kind.strict)
            /\ ~PagesShift(read)
        => \E w \in seen : /\ read.result[1] = Look(w, read)
                           /\ (IF read.kind.style = "one" THEN w.parts[1] ELSE w.head) = 0

\* The public repositories of a workspace and the changes of a commit range come from that
\* workspace or range alone, wherever a next link leads; and a read that compares identities
\* never holds another resource, whatever the provider answers.
OwnCollectionOnly ==
    /\ read.kind.exact => \A x \in Range(read.got) : x.c # -1
    /\ read.kind.same => read.commit # -1 /\ -1 \notin Range(read.parts)

\* Nothing is listed twice while the provider's list does not change.
ListedOnce ==
    read.phase = "verified" /\ Cardinality(seen) = 1 => IsInjective(read.result[1].items)
=============================================================================
