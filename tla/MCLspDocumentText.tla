------------------------- MODULE MCLspDocumentText -------------------------
EXTENDS LspDocumentText

MCTexts == {Letter \o LF \o TwoBytes, FourBytes \o CR \o LF}
MCReplacements ==
    {<<>>, Letter, TwoBytes, FourBytes, LF, CR, CR \o LF, LF \o TwoBytes}
=============================================================================
