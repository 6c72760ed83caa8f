-------------------------- MODULE MCExtractedDump --------------------------
\* A file of two chunks, one of a single chunk and an empty one at the end of the table; in the file
\* browser the first two are in a directory and in a directory within that.
EXTENDS ExtractedDump

MCFileSizes == <<2, 1, 0>>
MCDirectory == << <<"outer">>, <<"outer", "inner">>, <<>> >>
=============================================================================
