----------------------------- MODULE AllFormats -----------------------------
(***************************************************************************)
(* What TLC checks beyond Formats: the QR code of the page.  QrCode computes*)
(* with bits, so it stands apart from what is proved.                      *)
(***************************************************************************)
EXTENDS Formats, QrCode

CONSTANT Texts  \* texts of a QR code, as bytes

AllNext ==
  \/ Next
  \/ input[1] = "none" /\ Pick("text", Texts \X (0..7))

AllSpec == Init /\ [][AllNext]_input

-----------------------------------------------------------------------------

\* A reader of the QR code finds its patterns, the level and the mask in both
\* places, no error in any block, and the text, whichever mask was chosen
\* (qrcode.js:43-384, app.js:185-192).
QrReads ==
  Given("text") =>
    \A text \in {It[1]}, mask \in {It[2]} :
      \A board \in {Board(text, mask)} :
        \E size \in 1..4 :
          LET n      == moduleCount(size)
              blocks == BlocksRead(board, mask, size)
              rs     == RsBlocks[size]
          IN /\ Cardinality(DOMAIN board) = n ^ 2
             /\ DOMAIN board = (0..(n - 1)) \X (0..(n - 1))
             /\ Patterned(board, n)
             /\ \A places \in FormatPlaces(n) : FormatAt(board, places) = FormatInfo[mask + 1]
             /\ \A r \in DOMAIN blocks : WithoutError(blocks[r], rs)
             /\ TextOf(FlattenSeq([r \in DOMAIN blocks |-> SubSeq(blocks[r], 1, rs.data)])) = text
=============================================================================
