------------------------------ MODULE RadarPage ------------------------------
(***************************************************************************)
(* The radar's web page (app.js): it polls /json, shows the snapshot's map *)
(* image and draws the players on it.  An image is shown when the browser  *)
(* has loaded it; loads started for several maps, or several times for one *)
(* (a poll that finds the image not shown yet starts another), end in any  *)
(* order.  The browser's timer, fetch and image loading are modelled from  *)
(* how the page uses them.                                                 *)
(***************************************************************************)
EXTENDS Naturals, FiniteSets

CONSTANTS
  Images,     \* the images snapshots name
  Missing,    \* those the server does not have
  MaxLoads    \* bound: loads under way at once

ASSUME PageAssumption == Missing \subseteq Images /\ MaxLoads \in Nat \ {0}

NoImage == "no image"
Down == "down"

ASSUME ImageAssumption == NoImage \notin Images /\ Down \notin Images

VARIABLES
  served,    \* what /json answers: an image ("ok"), NoImage (any other status) or Down
  poll,      \* the poll: "timer", "request" or "response"
  response,  \* the snapshot fetched
  snapshot,  \* latestSnapshot, or Down before the first one
  shown,     \* loadedImage, loadedImageName and radarMap's src: an image or NoImage
  loads,     \* how many loads of each image are under way
  overlay    \* the text over the map: "none", "message" or the missing image

vars == <<served, poll, response, snapshot, shown, loads, overlay>>

Served == Images \cup {NoImage, Down}

\* Loads under way, of all images.
Loading == {<<i, k>> \in Images \X (1 .. MaxLoads) : k <= loads[i]}

-----------------------------------------------------------------------------

\* The reader task publishes another map, or fails; the server goes or returns.
ServerChanges == \E s \in Served \ {served} :
  /\ served' = s
  /\ UNCHANGED <<poll, response, snapshot, shown, loads, overlay>>

\* The timer fires: pollSnapshot sends its request.
SendRequest == /\ poll = "timer"
               /\ poll' = "request"
               /\ UNCHANGED <<served, response, snapshot, shown, loads, overlay>>

\* The server answers with the snapshot it has now.
Answer == /\ poll = "request" /\ served # Down
          /\ poll' = "response"
          /\ response' = served
          /\ UNCHANGED <<served, snapshot, shown, loads, overlay>>

\* fetch fails: the last snapshot stays, the next poll is scheduled all the same.
PollFails == /\ poll = "request" /\ served = Down
             /\ poll' = "timer"
             /\ overlay' = IF snapshot = Down THEN "message" ELSE overlay
             /\ UNCHANGED <<served, response, snapshot, shown, loads>>

\* Seeded fault: an image once asked for is not asked for again.
LoadMapImage_Once(image) ==
  IF image = NoImage THEN shown' = NoImage /\ UNCHANGED loads
  ELSE /\ UNCHANGED shown
       /\ IF image = shown \/ image = snapshot THEN UNCHANGED loads
          ELSE /\ Cardinality(Loading) < MaxLoads
               /\ loads' = [loads EXCEPT ![image] = @ + 1]

\* loadMapImage: hide the image, keep the one shown, or start to load another.
LoadMapImage(image) ==
  IF image = NoImage THEN shown' = NoImage /\ UNCHANGED loads
  ELSE /\ UNCHANGED shown
       /\ IF image = shown THEN UNCHANGED loads
          ELSE /\ Cardinality(Loading) < MaxLoads
               /\ loads' = [loads EXCEPT ![image] = @ + 1]

\* handleSnapshot, and the timer for the next poll.
HandleSnapshot == /\ poll = "response"
                  /\ snapshot' = response
                  /\ LoadMapImage(response)
                  /\ overlay' = IF response = NoImage THEN "message" ELSE "none"
                  /\ poll' = "timer"
                  /\ response' = Down
                  /\ UNCHANGED served

\* onload of a load of image i, whatever is wanted by now.
Loaded == \E i \in Images \ Missing :
  /\ loads[i] > 0
  /\ loads' = [loads EXCEPT ![i] = @ - 1]
  /\ shown' = i
  /\ UNCHANGED <<served, poll, response, snapshot, overlay>>

\* Seeded fault: onerror leaves the old image.
LoadFails_KeepsImage == \E i \in Images :
  /\ loads[i] > 0 /\ (i \in Missing \/ served = Down)
  /\ loads' = [loads EXCEPT ![i] = @ - 1]
  /\ overlay' = i
  /\ UNCHANGED <<served, poll, response, snapshot, shown>>

\* onerror of a load of image i, which the server does not have, or is not there to
\* send: whatever is shown goes, be it of another map or of i from an earlier load.
LoadFails == \E i \in Images :
  /\ loads[i] > 0 /\ (i \in Missing \/ served = Down)
  /\ loads' = [loads EXCEPT ![i] = @ - 1]
  /\ shown' = NoImage
  /\ overlay' = i
  /\ UNCHANGED <<served, poll, response, snapshot>>

-----------------------------------------------------------------------------

Init == /\ served \in Served
        /\ poll = "timer" /\ response = Down /\ snapshot = Down
        /\ shown = NoImage /\ loads = [i \in Images |-> 0] /\ overlay = "message"

Poll == SendRequest \/ Answer \/ PollFails \/ HandleSnapshot

Next == ServerChanges \/ Poll \/ Loaded \/ LoadFails

\* The browser fires timers, ends requests and ends every image load.
Fairness == WF_vars(Poll) /\ \A i \in Images : WF_vars((Loaded \/ LoadFails) /\ loads'[i] < loads[i])

Spec == Init /\ [][Next]_vars /\ Fairness

-----------------------------------------------------------------------------
(* Properties.                                                             *)

\* A load that ends late can put an old map under new players, or bring a map
\* back that was hidden.  Such an image does not stay: once the server keeps
\* serving one map, its image is shown for good and nothing covers it; once it
\* keeps serving none, no image is shown.
RightMapShown ==
  /\ \A i \in Images \ Missing :
       <>[](served = i) => <>[](shown = i /\ overlay = "none")
  /\ <>[](served = NoImage) => <>[](shown = NoImage)

\* When the server keeps naming an image it does not have, the old map does not
\* stay under the new players, and the page says again and again what is missing.
MissingMapIsSaid == \A i \in Missing :
  <>[](served = i) => <>[](shown = NoImage) /\ []<>(overlay = i)
=============================================================================
