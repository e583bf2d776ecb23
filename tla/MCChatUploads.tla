--------------------------- MODULE MCChatUploads ---------------------------
EXTENDS ChatUploads
==============================================================================
