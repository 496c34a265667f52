---------------------------- MODULE QuickReplies ----------------------------
(***************************************************************************)
(* QuickReplyService: each agent's own category and replies, the           *)
(* favourites anybody may keep of any reply, the counter on the reply, and *)
(* the cached list of categories with the number of replies in each.       *)
(*                                                                         *)
(* An agent has one category.  Contents, orders and pages are left out.    *)
(***************************************************************************)
EXTENDS Naturals, FiniteSets, FiniteSetsExt

CONSTANTS
  ReplyUsers, Replies,
  Clicks,    (* calls of toggleFavorite that may overlap *)
  MaxUses    (* bound on the uses counted of a reply *)

ASSUME QuickReplyAssumption ==
  /\ MaxUses \in Nat /\ IsFiniteSet(ReplyUsers) /\ IsFiniteSet(Replies)
  /\ "nobody" \notin ReplyUsers

VARIABLES
  categories,  (* the category of each agent *)
  replies,     (* rows *)
  favorites,   (* rows <<agent, reply>>, unique *)
  clicks,      (* what each transaction of toggleFavorite has read *)
  listed,      (* the cached list of categories of each agent *)
  counting     (* agents whose list was counted and is about to be stored *)

replyVars == <<categories, replies, favorites, clicks, listed, counting>>

NoReply == [owner |-> "nobody", active |-> FALSE, deleted |-> FALSE, uses |-> 0, favoriteCount |-> 0]
NoClick == [phase |-> "none", agent |-> "nobody", reply |-> "none", existing |-> FALSE]

\* A number of replies, or none.
Counts == {{}} \cup {{n} : n \in 0..Cardinality(Replies)}

RepliesTypeOK ==
  /\ categories \in [ReplyUsers -> {"absent", "kept", "deleted"}]
  /\ replies \in [Replies -> [owner : ReplyUsers \cup {"nobody"}, active : BOOLEAN, deleted : BOOLEAN,
                             uses : 0..MaxUses, favoriteCount : 0..Cardinality(ReplyUsers)]]
  /\ favorites \subseteq ReplyUsers \X Replies
  /\ clicks \in [Clicks -> [phase : {"none", "read"}, agent : ReplyUsers \cup {"nobody"},
                           reply : Replies \cup {"none"}, existing : BOOLEAN]]
  /\ listed \in [ReplyUsers -> Counts] /\ counting \in [ReplyUsers -> Counts]

RepliesInit ==
  /\ categories = [s \in ReplyUsers |-> "absent"] /\ replies = [r \in Replies |-> NoReply]
  /\ favorites = {} /\ clicks = [c \in Clicks |-> NoClick]
  /\ listed = [s \in ReplyUsers |-> {}] /\ counting = [s \in ReplyUsers |-> {}]

ActiveReplies(s) == {r \in Replies : replies[r].owner = s /\ replies[r].active /\ ~replies[r].deleted}

\* clearUserCache deletes the keys of one agent; an error of Redis leaves them.
ClearUserCache(s) == listed' \in {listed, [listed EXCEPT ![s] = {}]}

\* createCategory, updateCategory, deleteCategory: the owner's row, then the owner's cache.
ChangeCategory(s) ==
  /\ \/ categories[s] = "absent" /\ categories' = [categories EXCEPT ![s] = "kept"]
     \/ categories[s] # "absent" /\ UNCHANGED categories
     \/ categories[s] # "absent" /\ categories' = [categories EXCEPT ![s] = "deleted"]
  /\ ClearUserCache(s)
  /\ UNCHANGED <<replies, favorites, clicks, counting>>

\* createReply finds its category by id, deleted or not; it clears no cache.
CreateReply(s, r) ==
  /\ categories[s] # "absent" /\ replies[r].owner = "nobody"
  /\ replies' = [replies EXCEPT ![r] = [NoReply EXCEPT !.owner = s, !.active = TRUE]]
  /\ UNCHANGED <<categories, favorites, clicks, listed, counting>>

\* updateReply and deleteReply, for the owner.
ChangeReply(s, r) ==
  /\ replies[r].owner = s
  /\ \/ replies' = [replies EXCEPT ![r].active = ~@]
     \/ ~replies[r].deleted /\ replies' = [replies EXCEPT ![r].deleted = TRUE]
  /\ ClearUserCache(s)
  /\ UNCHANGED <<categories, favorites, clicks, counting>>

IncrementUsage(r) ==
  /\ replies[r].owner # "nobody" /\ replies[r].uses < MaxUses
  /\ replies' = [replies EXCEPT ![r].uses = @ + 1]
  /\ ClearUserCache(replies[r].owner)
  /\ UNCHANGED <<categories, favorites, clicks, counting>>

\* toggleFavorite: the reply must exist; the transaction reads the favourite.
BeginToggle(c, s, r) ==
  /\ clicks[c].phase = "none" /\ replies[r].owner # "nobody"
  /\ clicks' = [clicks EXCEPT ![c] = [phase |-> "read", agent |-> s, reply |-> r,
                                      existing |-> <<s, r>> \in favorites]]
  /\ UNCHANGED <<categories, replies, favorites, listed, counting>>

Toggle(c, count) ==
  LET s == clicks[c].agent
      r == clicks[c].reply
  IN /\ favorites' = IF clicks[c].existing THEN favorites \ {<<s, r>>} ELSE favorites \cup {<<s, r>>}
     /\ replies' = [replies EXCEPT ![r].favoriteCount = count]
     /\ clicks' = [clicks EXCEPT ![c] = NoClick]
     /\ ClearUserCache(s)
     /\ UNCHANGED <<categories, counting>>

CountAfter(c) ==
  LET n == replies[clicks[c].reply].favoriteCount
  IN IF ~clicks[c].existing THEN n + 1 ELSE IF n = 0 THEN 0 ELSE n - 1

\* A commit that takes what it read for what is there.
CommitBlindly(c) == clicks[c].phase = "read" /\ Toggle(c, CountAfter(c))

\* The row read is deleted by its id, or created under its unique key: either call fails when
\* another transaction came first.  The counter changes in the same transaction.
CommitToggle(c) ==
  /\ clicks[c].phase = "read"
  /\ clicks[c].existing <=> <<clicks[c].agent, clicks[c].reply>> \in favorites
  /\ Toggle(c, CountAfter(c))

\* The transaction is rolled back: the other came first, or the database failed.
RollBackToggle(c) ==
  /\ clicks[c].phase = "read"
  /\ clicks' = [clicks EXCEPT ![c] = NoClick]
  /\ UNCHANGED <<categories, replies, favorites, listed, counting>>

\* getCategories: on a miss the rows are counted and then stored.
CountCategories(s) ==
  /\ listed[s] = {} /\ counting[s] = {}
  /\ counting' = [counting EXCEPT ![s] =
                    {IF categories[s] = "kept" THEN Cardinality(ActiveReplies(s)) ELSE 0}]
  /\ UNCHANGED <<categories, replies, favorites, clicks, listed>>

StoreCategories(s) ==
  /\ counting[s] # {}
  /\ listed' \in {listed, [listed EXCEPT ![s] = counting[s]]}
  /\ counting' = [counting EXCEPT ![s] = {}]
  /\ UNCHANGED <<categories, replies, favorites, clicks>>

ExpireCategories(s) ==
  /\ listed[s] # {} /\ listed' = [listed EXCEPT ![s] = {}]
  /\ UNCHANGED <<categories, replies, favorites, clicks, counting>>

RepliesNext ==
  \/ \E s \in ReplyUsers :
       \/ ChangeCategory(s) \/ CountCategories(s) \/ StoreCategories(s) \/ ExpireCategories(s)
       \/ \E r \in Replies :
            \/ CreateReply(s, r) \/ ChangeReply(s, r)
            \/ \E c \in Clicks : BeginToggle(c, s, r)
  \/ \E r \in Replies : IncrementUsage(r)
  \/ \E c \in Clicks : CommitToggle(c) \/ RollBackToggle(c)

RepliesSpec == RepliesInit /\ [][RepliesNext]_replyVars

\* The counter of a reply is the number of agents who keep it, through overlapping clicks of
\* one agent and of several (toggleFavorite).
FavoritesAreCounted ==
  \A r \in Replies : replies[r].favoriteCount = Cardinality({s \in ReplyUsers : <<s, r>> \in favorites})
=============================================================================
