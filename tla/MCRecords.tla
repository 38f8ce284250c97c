------------------------------ MODULE MCRecords -----------------------------
EXTENDS Records

\* Two spellings of one alias, and another alias.
MCAliases == {"kimi", "KIMI", "glm"}
MCFold == [a \in MCAliases |-> IF a = "glm" THEN "glm" ELSE "kimi"]
MCUpstreams == {"k2", "g5"}
Entry(a, u) == [alias |-> a, upstream |-> u]
MCDefaults == <<Entry("kimi", "k2"), Entry("glm", "g5")>>
MCImports ==
  {<<Entry("KIMI", "k2")>>, <<Entry("glm", "g5"), Entry("KIMI", "g5")>>,
   <<Entry("KIMI", "k2"), Entry("glm", "k2"), Entry("kimi", "k2")>>}

MCEnvironment ==
  [retention |-> 2, passthrough |-> FALSE, proxyKeys |-> {}, affinity |-> NoValue]
MCPatches ==
  {[retention |-> 1, passthrough |-> TRUE], [retention |-> NoValue]}

Row(alias, key, status, error) ==
  [alias |-> alias, key |-> key, client |-> "client", status |-> status, error |-> error,
   tokens |-> IF status = 200 THEN 3 ELSE 0, estimated |-> FALSE]
\* Answers, an error of the upstream, a request that no key could take, an
\* answer that is neither, a stream that broke off after its 200.
MCRows ==
  {Row("kimi", "k1", 200, None), Row(None, "k2", 503, "upstream_server_error"),
   Row("kimi", None, NoStatus, None), Row("glm", "k1", 302, None),
   Row("kimi", "k2", 200, "stream_error")}
MCOldRows == {<<>>, <<Row("kimi", "k2", 404, None), Row("glm", "k1", 200, None)>>}

Metric(usage, parses) == [usage |-> usage, tokens |-> 2, parses |-> parses]
MCCsvs ==
  {[columns |-> TRUE, rows |-> <<Metric("text", TRUE), Metric(None, TRUE)>>],
   [columns |-> TRUE, rows |-> <<Metric("text", TRUE)>>],
   [columns |-> TRUE, rows |-> <<Metric("text", TRUE), Metric("text", FALSE)>>],
   [columns |-> FALSE, rows |-> <<>>]}

=============================================================================
