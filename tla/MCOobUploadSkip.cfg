\* A file whose digest was not saved, and a configuration that changes back.
SPECIFICATION Spec
CONSTANTS
  c1 = c1
  c2 = c2
  c3 = c3
  Uploads <- MCUploads
  Content <- MCContent
  Fingerprint <- MCFingerprint
  Digest <- MCDigest
  NoFile = NoFile
  NoDigest = NoDigest
  Md5Support = TRUE
  Retry = 1
PROPERTY SkippedIsCurrent
