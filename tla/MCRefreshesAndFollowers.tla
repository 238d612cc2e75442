----------------------- MODULE MCRefreshesAndFollowers -----------------------
(***************************************************************************)
(* The refreshes of provider instances and the clients that follow an      *)
(* event log, side by side in one run: the initial state says which of     *)
(* them runs, and the other stands still, and is owed nothing.             *)
(***************************************************************************)
EXTENDS EventFollower, RefreshCoordinator

VARIABLE part

PartsInit == part \in {"refreshes", "followers"} /\ Init /\ FollowerInit

RefreshesStep == part = "refreshes" /\ Next /\ UNCHANGED <<part, followerVars>>
FollowersStep == part = "followers" /\ FollowerNext /\ UNCHANGED <<part, vars>>

allVars == <<part, vars, followerVars>>

OfRefreshes(A) == part = "refreshes" /\ A /\ UNCHANGED <<part, followerVars>>
OfFollowers(A) == part = "followers" /\ A /\ UNCHANGED <<part, vars>>

PartsSpec ==
    /\ PartsInit /\ [][RefreshesStep \/ FollowersStep]_allVars
    /\ WF_allVars(OfRefreshes(\E w \in Worker : Take(w)))
    /\ \A r \in Refresher :
          WF_allVars(OfRefreshes(Moving(r))) /\ SF_allVars(OfRefreshes(Acquire(r)))
    /\ \A f \in Follower :
          WF_allVars(OfFollowers(Serve(f))) /\ WF_allVars(OfFollowers(Reading(f)))
=============================================================================
