---------------------------- MODULE MCAggregators ----------------------------
EXTENDS Aggregators

\* YCSBRawLogParser records every entry with client=-1.
YcsbClientIds == {-1}
=============================================================================
