-------------------------------- MODULE Listings --------------------------------
(***************************************************************************)
(* A client that walks through a list page by page while rows come, go and *)
(* change places.  Every page is a request of its own, and the ones that   *)
(* report a total count the rows in a query of its own, so nothing holds a *)
(* list still.  Which rows the client misses or sees twice depends on how  *)
(* the handler orders, counts and cuts the list.                           *)
(*                                                                         *)
(* Searches, filters and permissions are rows that come and go anywhere.   *)
(***************************************************************************)
EXTENDS Integers, FiniteSets, Sequences, SequencesExt, FiniteSetsExt

CONSTANTS
    MaxRowId,  \* bound: rows there ever are
    MaxChange  \* bound: changes of the list during the walk

ASSUME ListBounds == MaxRowId \in Nat /\ MaxChange \in Nat

VARIABLES
    listing, \* the handler: [order, ends]
    perPage,
    list,    \* the rows, in the order of the list
    lastId,
    walk,    \* the client's walk
    changes,
    grew,    \* history: a row came in before another one
    shrank,  \* history: a row went that was not the last
    raced    \* history: grew between a count and its page, or the page was not read

listVars == <<listing, perPage, list, lastId, walk, changes, grew, shrank, raced>>

-----------------------------------------------------------------------------
(* The handlers.  order says where a new row goes, and whether a change    *)
(* moves one there: oldest first, newest first, by the time of the last    *)
(* change either way, or by a column that puts it anywhere.                *)

Times == {"oldest", "newest", "touched", "untouched"}
Orders == Times \cup {"any"}
Unordered == {"oldest", "any"}  \* no ORDER BY: by id, or along some index

\* A total from a query before the page's, and links to the next page.
Counted(orders) == [order : orders, ends : {"count"}]
\* The whole list is read and cut; the total is its length.
Sliced(orders) == [order : orders, ends : {"slice"}]
\* No total: the client goes on until a page is not full.
Bare(orders) == [order : orders, ends : {"bare"}]
\* The total and the page come from two git commands; a failure is an empty list.
Logged == [order : {"newest"}, ends : {"git"}]
\* Relay cursors, which are places in the list; a client may go either way.
Connection(orders) == [order : orders, ends : {"forward", "backward"}]

ListProjectIssues == Counted({"newest"})
ListIssues == Counted(Times)
ListMergeRequests == Counted(Times)
ListPulls == Counted(Times)
ListComments == Counted({"oldest"})
ListReviews == Bare({"oldest"})
ListReviewComments == Counted(Times)
ListReviewCommentsForReview == Bare({"oldest"})
ListIssueReactions == Bare(Unordered)
ListCommentReactions == Bare(Unordered)
ListProjectLabels == Counted({"any"})
ListLabels == Bare({"any"})
ListProjectMilestones == Counted({"any"})
ListMilestones == Bare({"any"})
ListProjectReleases == Counted({"newest"})
ListReleases == Counted({"newest"})

ListPipelines == Counted(Orders)
ListPipelineBridges == Counted({"oldest"})
ListPipelineJobs == Counted({"oldest", "newest"})
ListProjectJobs == Counted({"oldest", "newest"})
ListProjectEnvironments == Sliced({"any"})
ListProjectEnvironmentDeployments == Counted({"newest"})
ListProjectDeployments == Counted({"newest"})
ListRunners == Counted({"oldest"})
ListRunnerJobs == Counted({"newest"})
ListWorkflows == Bare(Unordered)
ListWorkflowRuns == Bare({"newest"})
ListCheckRunsForRef == Bare({"newest"})
ListStatuses == Bare({"newest"})
ListProjectCommitStatuses == Bare({"newest"})

ListProjects == Sliced(Orders)
ListUserProjects == Sliced({"oldest"})
ListGroupProjects == Sliced({"oldest"})
ListUserRepos == Counted(Orders)
ListAuthenticatedUserRepos == Counted(Orders)
ListProjectForks == Sliced({"oldest", "newest"})
ListForks == Bare({"oldest", "newest", "any"})
ListGroups == Counted(Orders)
ListGroupSubgroups == Sliced(Orders)
ListGroupDescendantGroups == Sliced(Orders)
ListNamespaces == Sliced({"any"})
ListProjectMembers == Sliced({"any"})
ListGroupMembers == Sliced({"any"})
ListAllGroupMembers == ListGroupMembers
ListOrgMembers == Bare(Unordered)
ListTeams == Bare(Unordered)
ListTeamMembers == Bare(Unordered)
ListUsers == Counted({"oldest"})
ListUserPublicKeys == Bare({"oldest"})
ListStargazers == Bare(Unordered)
ListStarred == Bare({"newest"})
ListUserStarred == Bare({"newest"})
ListProjectDeployKeys == Sliced({"oldest"})
ListDeployKeys == Bare(Unordered)
ListProjectHooks == Counted({"oldest"})
ListGroupHooks == Counted({"oldest"})
ListHooks == Counted(Unordered)
ListDeliveries == Counted({"newest"})
ListPersonalSnippets == Sliced({"newest"})
ListProjectSnippets == Sliced({"newest"})
ListGists == Bare({"touched"})
ListPublicGists == Bare({"touched"})
ListUserGists == Bare({"touched"})
ListPublicEvents == Bare({"newest"})
ListRepoEvents == Bare({"newest"})
ListUserEvents == Bare({"newest"})
ListUserReceivedEvents == Bare({"newest"})
ListNotifications == Bare({"touched"})
ListRepoNotifications == Bare({"touched"})

ListProjectBranches == Sliced({"any"})
ListProjectProtectedBranches == Counted({"any"})
ListBranches == Bare({"any"})
ListProjectTags == Sliced({"any"})
ListProjectContributors == Sliced({"any"})
ListRepositoryTree == Sliced({"any"})
GetMergeRequestDiffs == Sliced({"any"})
ListRepositoryCommits == Logged
GetMergeRequestCommits == Logged
CommitsList == Logged
ListCommits == Bare({"newest"})

GitlabSearch == Sliced(Orders)
SearchRepositories == Sliced({"touched", "untouched", "any"})
SearchIssues == Sliced(Times)
SearchUsers == Counted({"oldest", "newest", "any"})
SearchCode == Sliced(Unordered)
SearchCommits == Sliced({"oldest", "newest", "any"})
SearchPage == Counted({"touched"})

GraphqlRepositories == Connection(Orders)
GraphqlUserRepositories == Connection(Orders)
GraphqlWatchers == Connection({"oldest"})
GraphqlIssues == Connection(Times)
GraphqlPullRequests == Connection({"oldest"})
GraphqlMergeRequests == GraphqlPullRequests
GraphqlLabels == Connection({"oldest", "newest", "any"})
GraphqlMilestones == Connection({"oldest"})
GraphqlRefs == Connection({"any"})
GraphqlIssueLabels == Connection({"any"})
GraphqlIssueAssignees == Connection(Unordered)
GraphqlIssueComments == Connection({"oldest"})
GraphqlClosedBy == Connection({"oldest"})
GraphqlAssignees == Connection(Unordered)
GraphqlPullLabels == Connection({"any"})
GraphqlPullComments == Connection({"oldest"})
GraphqlPullCommits == Connection({"oldest", "newest"})
GraphqlReviews == Connection({"oldest"})
GraphqlClosingIssues == Connection({"any"})
GraphqlFiles == Connection({"any"})

Listings ==
    UNION {
        ListProjectIssues, ListIssues, ListMergeRequests, ListPulls, ListComments, ListReviews,
        ListReviewComments, ListReviewCommentsForReview, ListIssueReactions, ListCommentReactions,
        ListProjectLabels, ListLabels, ListProjectMilestones, ListMilestones, ListProjectReleases,
        ListReleases, ListPipelines, ListPipelineBridges, ListPipelineJobs, ListProjectJobs,
        ListProjectEnvironments, ListProjectEnvironmentDeployments, ListProjectDeployments,
        ListRunners, ListRunnerJobs, ListWorkflows, ListWorkflowRuns, ListCheckRunsForRef,
        ListStatuses, ListProjectCommitStatuses, ListProjects, ListUserProjects, ListGroupProjects,
        ListUserRepos, ListAuthenticatedUserRepos, ListProjectForks, ListForks, ListGroups,
        ListGroupSubgroups, ListGroupDescendantGroups, ListNamespaces, ListProjectMembers,
        ListAllGroupMembers, ListOrgMembers, ListTeams, ListTeamMembers, ListUsers,
        ListUserPublicKeys, ListStargazers, ListStarred, ListUserStarred, ListProjectDeployKeys,
        ListDeployKeys, ListProjectHooks, ListGroupHooks, ListHooks, ListDeliveries,
        ListPersonalSnippets, ListProjectSnippets, ListGists, ListPublicGists, ListUserGists,
        ListPublicEvents, ListRepoEvents, ListUserEvents, ListUserReceivedEvents,
        ListNotifications, ListRepoNotifications, ListProjectBranches,
        ListProjectProtectedBranches, ListBranches, ListProjectTags, ListProjectContributors,
        ListRepositoryTree, GetMergeRequestDiffs, ListRepositoryCommits, GetMergeRequestCommits,
        CommitsList, ListCommits, GitlabSearch, SearchRepositories, SearchIssues, SearchUsers,
        SearchCode, SearchCommits, SearchPage, GraphqlRepositories, GraphqlUserRepositories,
        GraphqlWatchers, GraphqlIssues, GraphqlMergeRequests, GraphqlLabels, GraphqlMilestones,
        GraphqlRefs, GraphqlIssueLabels, GraphqlIssueAssignees, GraphqlIssueComments,
        GraphqlClosedBy, GraphqlAssignees, GraphqlPullLabels, GraphqlPullComments,
        GraphqlPullCommits, GraphqlReviews, GraphqlClosingIssues, GraphqlFiles}

-----------------------------------------------------------------------------
\* page: the page, or the place a cursor stands for.  there: the rows that have
\* been in the list since the walk began.
Walk == [at : {"count", "page", "end"}, page : Nat, total : Nat,
         seen : Seq(1 .. MaxRowId), there : SUBSET (1 .. MaxRowId)]

ListTypeOK ==
    /\ listing \in Listings /\ perPage \in {1, 2}
    /\ list \in Seq(1 .. MaxRowId) /\ lastId \in 0 .. MaxRowId
    /\ walk \in Walk /\ changes \in 0 .. MaxChange
    /\ {grew, shrank, raced} \subseteq BOOLEAN

TwoReads == listing.ends \in {"count", "git"}

ListInit ==
    /\ listing \in Listings /\ perPage \in {1, 2}
    /\ lastId \in 0 .. MaxRowId /\ list = [i \in 1 .. lastId |-> i]
    /\ walk = [at |-> IF TwoReads THEN "count" ELSE "page",
               page |-> CASE listing.ends = "forward" -> 0
                          [] listing.ends = "backward" -> MaxRowId
                          [] OTHER -> 1,
               total |-> 0, seen |-> <<>>, there |-> 1 .. lastId]
    /\ changes = 0 /\ grew = FALSE /\ shrank = FALSE /\ raced = FALSE

-----------------------------------------------------------------------------
(* Other requests change the list. *)

\* Where a new row, or one that was changed, goes.
Places(n) ==
    CASE listing.order \in {"newest", "touched"} -> {1}
      [] listing.order \in {"oldest", "untouched"} -> {n + 1}
      [] OTHER -> 1 .. n + 1

Change(rest) ==
    /\ walk.at # "end" /\ changes < MaxChange
    /\ changes' = changes + 1
    /\ walk' = [walk EXCEPT !.there = @ \cap rest]
    /\ UNCHANGED <<listing, perPage>>

RowComes(places) ==
    \E place \in places :
        /\ lastId < MaxRowId /\ lastId' = lastId + 1
        /\ list' = InsertAt(list, place, lastId')
        /\ grew' = (grew \/ place # Len(list'))
        /\ raced' = (raced \/ (place # Len(list') /\ TwoReads /\ walk.at = "page"))
        /\ Change(Range(list)) /\ UNCHANGED shrank

NewRow == RowComes(Places(Len(list)))

\* A row passes the filter now.  One that went and comes back counts as another.
RowPasses == RowComes(1 .. Len(list) + 1)

\* A row is deleted, or does not pass any more.
RowGoes ==
    \E i \in 1 .. Len(list) :
        /\ list' = RemoveAt(list, i)
        /\ shrank' = (shrank \/ i # Len(list))
        /\ Change(Range(list) \ {list[i]}) /\ UNCHANGED <<lastId, grew, raced>>

\* A change of a row moves it.
RowMoves ==
    \E i \in 1 .. Len(list) : \E place \in Places(Len(list) - 1) :
        /\ listing.order \in {"touched", "untouched", "any"}
        /\ place # i
        /\ list' = InsertAt(RemoveAt(list, i), place, list[i])
        /\ grew' = TRUE /\ shrank' = TRUE
        /\ Change(Range(list)) /\ UNCHANGED <<lastId, raced>>

-----------------------------------------------------------------------------
(* The requests of the walk. *)

Pages(total) == (total + perPage - 1) \div perPage

Following(p, more, next) ==
    walk' = [walk EXCEPT !.seen = @ \o p, !.page = IF more THEN next ELSE @,
                         !.at = IF ~more THEN "end" ELSE IF TwoReads THEN "count" ELSE "page"]

Reads == UNCHANGED <<listing, perPage, list, lastId, changes, grew, shrank>>

ReadCount ==
    /\ walk.at = "count"
    /\ walk' = [walk EXCEPT !.total = Len(list), !.at = "page"]
    /\ Reads /\ UNCHANGED raced

Cut(first, last) == SubSeq(list, first, Min({last, Len(list)}))

PaginationHeaders(total) == walk.page < Pages(total)

ReadPage ==
    LET cut == Cut((walk.page - 1) * perPage + 1, walk.page * perPage) IN
    /\ walk.at = "page" /\ listing.ends \notin {"forward", "backward"}
    /\ Following(cut,
                 CASE TwoReads -> PaginationHeaders(walk.total)
                   [] listing.ends = "slice" -> PaginationHeaders(Len(list))
                   [] OTHER -> Len(cut) = perPage,
                 walk.page + 1)
    /\ Reads /\ UNCHANGED raced

\* Mutation: the cursor is the place of the next row.
AfterIsNext(after) == Cut(Max({1, after}), after + perPage - 1)

\* after: the cursor of the last row before, 0 for none; cursors count from one here.
After(after) == Cut(after + 1, after + perPage)

ReadForward ==
    LET cut == After(walk.page) IN
    /\ walk.at = "page" /\ listing.ends = "forward"
    /\ Following(cut, walk.page + perPage < Len(list) /\ cut # <<>>, walk.page + Len(cut))
    /\ Reads /\ UNCHANGED raced

\* before: the rows up to that place; the page is put in front of what was seen.
ReadBackward ==
    LET end == Min({walk.page, Len(list)})
        start == Max({0, end - perPage}) IN
    /\ walk.at = "page" /\ listing.ends = "backward"
    /\ walk' = [walk EXCEPT !.seen = Cut(start + 1, end) \o @, !.page = start,
                            !.at = IF start > 0 THEN "page" ELSE "end"]
    /\ Reads /\ UNCHANGED raced

\* git fails: an empty page, without a next one.
ReadFails ==
    /\ listing.ends = "git" /\ walk.at # "end"
    /\ walk' = [walk EXCEPT !.at = "end"]
    /\ raced' = TRUE
    /\ Reads

ListNext ==
    \/ NewRow \/ RowPasses \/ RowGoes \/ RowMoves
    \/ ReadCount \/ ReadPage \/ ReadForward \/ ReadBackward \/ ReadFails

ListSpec == ListInit /\ [][ListNext]_listVars

-----------------------------------------------------------------------------
\* A walk to the end has seen every row that was in the list throughout, unless
\* rows moved towards the part the client had read: a row went from a list read
\* forward, or one came in before others in a list read backward.  With a count
\* of its own, a row may also come in between the count and the page.
MissesNone ==
    walk.at = "end" =>
        \/ walk.there \subseteq Range(walk.seen)
        \/ raced
        \/ IF listing.ends = "backward" THEN grew ELSE shrank

\* No walk shows a row twice unless rows moved the other way.
RepeatsNone ==
    \/ \A i, j \in DOMAIN walk.seen : walk.seen[i] = walk.seen[j] => i = j
    \/ IF listing.ends = "backward" THEN shrank ELSE grew

\* What pages, counts, links and cursors may do to a list that changes, and no
\* more: a list that stands still is shown whole, and each row once.
WalkIsExact == MissesNone /\ RepeatsNone
=============================================================================
