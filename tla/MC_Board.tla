------------------------------ MODULE MC_Board ------------------------------
(****************************************************************************)
(* Board on a small instance: a Polymarket and a Limitless event share a    *)
(* title, and the Polymarket one is on the pause scan's pages as well. Its  *)
(* books offer both structures for a while, then one of them for good.      *)
(****************************************************************************)
EXTENDS Board, TLC

CONSTANTS poly1, lim1, loop

MCEvents == {poly1, lim1}
MCPlatformOf == poly1 :> "poly" @@ lim1 :> "lim"
MCTitleOf == poly1 :> "t" @@ lim1 :> "t"
MCPagesOf == poly1 :> {"main", "pause"} @@ lim1 :> {"main"}
MCStructures == {"all_yes", "all_no"}
MCBooks == poly1 :> <<{"all_yes"}, {"all_no"}>>
        @@ lim1 :> <<{"all_yes"}>>
MCFirst == poly1 :> 1 @@ lim1 :> 1
MCScans == {loop}
MCMicros == {"poly"}
MCFeeds == {"poly"}
=============================================================================
