--------------------------- MODULE ImageRetention ---------------------------
(***************************************************************************)
(* Which images Core's cleanup may delete, computed from the bounded       *)
(* update history (rootguard-core/internal/updater/cleanup.go,             *)
(* cleanupPreviewLocked).                                                  *)
(*                                                                         *)
(* A history is a sequence of entries, NEWEST FIRST, each of them          *)
(*   [service, outcome, from, to, removed]                                 *)
(* where from and to are image IDs (NoImage for the code's empty string)   *)
(* and removed is the set of <<service, image>> pairs a cleanup deleted.   *)
(***************************************************************************)
EXTENDS Naturals, Sequences, FiniteSets

CONSTANT NoImage  \* the empty image ID

\* A variant the runs reject: only the active image would stay.
KeptImages_ActiveOnly == 1

KeptImages == 2   \* ids[:len(ids)-2]: the last two IDs of a service stay

\* Positions of the entries that count: successful updates of service s.
Successes(history, s) ==
  {i \in DOMAIN history : history[i].service = s /\ history[i].outcome = "success"}

ImagesOf(entry) == {entry.from, entry.to} \ {NoImage}

KnownImages(history, s) ==
  UNION {ImagesOf(history[i]) : i \in Successes(history, s)}

\* The images of s some earlier cleanup already recorded as removed. An image
\* ID belongs to one service, so a removed set holds <<service, image>> pairs.
RemovedImages(history, s) ==
  {image \in KnownImages(history, s) :
     \E i \in DOMAIN history : <<s, image>> \in history[i].removed}

\* The code walks the history from its oldest entry, FromID before ToID, and
\* keeps each ID at the place where it is FIRST seen: image b comes after
\* image a when every entry naming b is newer, or the two start in one entry
\* that leads from a to b.
FirstSeen(history, s, image) ==
  CHOOSE i \in Successes(history, s) :
    /\ image \in ImagesOf(history[i])
    /\ \A j \in Successes(history, s) : image \in ImagesOf(history[j]) => j <= i

SeenLater(history, s, a, b) ==
  LET i == FirstSeen(history, s, a)
      j == FirstSeen(history, s, b)
  IN  \/ j < i
      \/ /\ i = j
         /\ a # b
         /\ history[i].from = a

\* All but the two IDs seen last, without those already removed. The check
\* that no container uses an image (docker ps -a --filter ancestor=...) is
\* made by the caller, which knows the containers.
Candidates(history, s) ==
  {image \in KnownImages(history, s) \ RemovedImages(history, s) :
     Cardinality({other \in KnownImages(history, s) :
                    SeenLater(history, s, image, other)}) >= KeptImages}

=============================================================================
