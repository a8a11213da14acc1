----------------------------- MODULE TokenCount ------------------------------
(***************************************************************************)
(* The loop  for (auto toke : view)  of goose/util.cpp getTokenCount and   *)
(* of StupidStopwordCounter::countStopwords: visit tokens from begin() to  *)
(* end() and break at the first empty one.                                 *)
(***************************************************************************)
EXTENDS TokenView

VARIABLES token,      \* the iterator
          visited,    \* history: the tokens the loop went through
          counting

countVars == <<token, visited, counting>>

NoCount == token = EndToken /\ visited = <<>> /\ counting = FALSE

(* A call with the text t; the view of the text starts at begin(). *)
CountTokens(t) == /\ text' = t
                  /\ token' = FirstToken'
                  /\ visited' = <<>>
                  /\ counting' = TRUE

(* visited is a history, of at most Len(text) + 1 entries: a text has      *)
(* fewer tokens than that.                                                 *)
Visit == /\ counting
         /\ token # EndToken /\ token.start < token.end
         /\ visited' = IF Len(visited) > Len(text) THEN visited
                                                  ELSE Append(visited, token)
         /\ token' = NextToken(token)
         /\ UNCHANGED <<text, counting>>

BreakAtEmpty == /\ counting
                /\ token # EndToken /\ token.start >= token.end
                /\ counting' = FALSE
                /\ UNCHANGED <<text, token, visited>>

ReachEnd == /\ counting
            /\ token = EndToken
            /\ counting' = FALSE
            /\ UNCHANGED <<text, token, visited>>

-----------------------------------------------------------------------------
(* What was visited so far is exactly the maximal runs of letters up to    *)
(* the last visited one, in the order of the text: no token is split,      *)
(* merged, repeated or left out between two others.                        *)
VisitedAreTheFirstRuns ==
  /\ \A i \in 1 .. Len(visited) - 1 : visited[i].end < visited[i + 1].start
  /\ visited # <<>> =>
       Range(visited) = {r \in Runs : r.end <= visited[Len(visited)].end}

=============================================================================
